---- MODULE Spec2Model ----
(***************************************************************************)
(* Model of the WhatsApp Business pipeline of salva-zap:                   *)
(*   - WebhookProcessor (webhook.processor): process, processMessage,      *)
(*     updateMessageStatus, updateTemplateStatus;                          *)
(*   - WabaService (waba.service.ts): axiosWithRetry, handleCallback,      *)
(*     registerWebhook and the operations on a connected Account.          *)
(* Each await of the source is one step of the worker / invocation that    *)
(* runs it. Timestamps (lastAt, updatedAt, history timestamps) are kept    *)
(* as the constant marker "ts": no modelled decision reads them.           *)
(***************************************************************************)
EXTENDS Integers, Sequences, FiniteSets, TLC

\* ------------------------------------------------------------------ bounds
MaxJobs == 2
MaxFaults == 2
MaxCalls == 3
MaxOps == 2
MaxRetries == 3

\* ------------------------------------------------------ program constants
\* const maxAttempts = 3 in the catch block of process()
maxAttempts == 3

Null == "null"

\* ------------------------------------------------------------- the payloads
\* A message object of value.messages: text is the text body ("" when the
\* message has no text part), type the type marker.
Msg(id, from, text, type) == [id |-> id, from |-> from, text |-> text, type |-> type]
\* A status object of value.statuses.
St(id, status) == [id |-> id, status |-> status]
\* A template status update: event and name may be missing (Null).
Tu(event, name) == [event |-> event, name |-> name]

\* change.value: undefined, or an object with the optional members
NoValue ==
    [defined |-> FALSE, messages |-> <<>>, statuses |-> <<>>, event |-> Null,
     name |-> Null, message_template_status_update |-> <<>>]
Value(msgs, sts, event, name, tsu) ==
    [defined |-> TRUE, messages |-> msgs, statuses |-> sts, event |-> event,
     name |-> name, message_template_status_update |-> tsu]
Change(field, value) == [field |-> field, value |-> value]

\* payload.entry?.[0] is missing
PayloadNoEntry == [hasEntry |-> FALSE, changes |-> <<>>]
Payload(changes) == [hasEntry |-> TRUE, changes |-> changes]

PMsg1 == Payload(<<Change("messages", Value(<<Msg("m1", "c1", "hello", "text")>>, <<>>, Null, Null, <<>>))>>)
\* the same provider message identifier, redelivered with another content
PMsg1b == Payload(<<Change("messages", Value(<<Msg("m1", "c1", "", "image")>>, <<>>, Null, Null, <<>>))>>)
PStSent == Payload(<<Change("messages", Value(<<>>, <<St("m1", "sent")>>, Null, Null, <<>>))>>)
PStUnknown == Payload(<<Change("messages", Value(<<>>, <<St("m9", "failed")>>, Null, Null, <<>>))>>)
PMsgSt == Payload(<<Change("messages", Value(<<Msg("m1", "c1", "hello", "text")>>, <<St("m1", "read")>>, Null, Null, <<>>))>>)
PTplApproved == Payload(<<Change("message_template_status_update", Value(<<>>, <<>>, "APPROVED", "t1", <<>>))>>)
PTplArray == Payload(<<Change("other", Value(<<>>, <<>>, Null, Null, <<Tu("REJECTED", "t1"), Tu("PAUSED", "t1"), Tu("APPROVED", "t9"), Tu("APPROVED", Null)>>))>>)
PTplNoEvent == Payload(<<Change("other", Value(<<>>, <<>>, Null, Null, <<Tu(Null, "t1")>>))>>)
\* a first change that is applied and a second change without a value
PPartial == Payload(<<Change("messages", Value(<<Msg("m2", "c1", "hi", "text")>>, <<>>, Null, Null, <<>>)),
                      Change("messages", NoValue)>>)

PayloadNames == {"NoEntry", "Msg1", "Msg1b", "StSent", "StUnknown",
                 "MsgSt", "TplApproved", "TplArray", "TplNoEvent", "Partial"}
PayloadOf(n) ==
    CASE n = "NoEntry" -> PayloadNoEntry
      [] n = "Msg1" -> PMsg1
      [] n = "Msg1b" -> PMsg1b
      [] n = "StSent" -> PStSent
      [] n = "StUnknown" -> PStUnknown
      [] n = "MsgSt" -> PMsgSt
      [] n = "TplApproved" -> PTplApproved
      [] n = "TplArray" -> PTplArray
      [] n = "TplNoEvent" -> PTplNoEvent
      [] n = "Partial" -> PPartial

\* the callbacks the provider sends: <<provider account identifier, payload>>;
\* "W9" names no Account
Deliveries == {<<"W1", n>> : n \in PayloadNames}
              \cup {<<"W2", "Msg1">>, <<"W2", "StSent">>, <<"W9", "Msg1">>}
JobIds == 1..MaxJobs
Workers == {"w1"}
\* two consumers of the webhook-processing queue, each running process()
Consumers == {"w1", "w2"}
\* two callbacks of one Account with a message of the same contact
SameContact == {<<"W1", "Msg1">>, <<"W1", "Msg1b">>, <<"W1", "Partial">>}

\* ------------------------------------------- the order of work in process()
MessageOp(m) == [op |-> "message", arg |-> m]
StatusOp(s) == [op |-> "status", arg |-> s]
TemplateOp(u) == [op |-> "template", arg |-> u]
ThrowOp == [op |-> "throw", arg |-> Tu(Null, Null)]

\* The body of the for-loop over entry.changes: messages, then statuses,
\* then the template branch. Reading value.messages of a change without a
\* value raises a TypeError.
ChangeOps_statusesFirst(change) ==
    IF ~change.value.defined THEN <<ThrowOp>>
    ELSE LET value == change.value IN
         [k \in 1..Len(value.statuses) |-> StatusOp(value.statuses[k])]
         \o [k \in 1..Len(value.messages) |-> MessageOp(value.messages[k])]
         \o (IF change.field = "message_template_status_update" /\ value.event # Null
             THEN <<TemplateOp(Tu(value.event, value.name))>>
             ELSE [k \in 1..Len(value.message_template_status_update) |->
                      TemplateOp(value.message_template_status_update[k])])
ChangeOps(change) ==
    IF ~change.value.defined THEN <<ThrowOp>>
    ELSE LET value == change.value IN
         [k \in 1..Len(value.messages) |-> MessageOp(value.messages[k])]
         \o [k \in 1..Len(value.statuses) |-> StatusOp(value.statuses[k])]
         \o (IF change.field = "message_template_status_update" /\ value.event # Null
             THEN <<TemplateOp(Tu(value.event, value.name))>>
             ELSE [k \in 1..Len(value.message_template_status_update) |->
                      TemplateOp(value.message_template_status_update[k])])

RECURSIVE Ops(_)
Ops(changes) ==
    IF changes = <<>> THEN <<>>
    ELSE ChangeOps(Head(changes)) \o Ops(Tail(changes))

\* ops of the job's payload, in the order process() applies them
JobOps(job) == Ops(PayloadOf(job.payload).changes)

\* ------------------------------------------------------------------ state
VARIABLES
    wabaAccounts,   \* prisma.wabaAccount: set of rows, wabaId unique
    conversations,  \* prisma.conversation: sequence of rows, id = index
    messages,       \* prisma.message: sequence of rows, id = index
    templates,      \* prisma.template: sequence of rows, id = index
    webhookEvents,  \* prisma.webhookEvent: eventId -> row
    jobs,           \* the webhook-processing queue: jobId -> job
    wk,             \* the worker running process(): its position and locals
    faults,         \* persistence failures injected so far
    applied,        \* history: the statuses applied to existing rows, per message key
    okSnap          \* history: state left by the last successful run of a payload

procVars == <<wabaAccounts, conversations, messages, templates, webhookEvents,
              jobs, wk, faults, applied, okSnap>>

VARIABLES
    usedCodes,      \* WabaService.usedCodes
    redeemed,       \* provider: authorization codes already exchanged
    hc,             \* the handleCallback invocations: position and locals
    calls,          \* handleCallback invocations started so far
    regs,           \* registerWebhook runs in flight
    nextAccountId,  \* next row id of prisma.wabaAccount
    succeeded       \* history: the codes whose negotiation returned the success result

cbVars == <<usedCodes, redeemed, hc, calls, regs, nextAccountId, succeeded>>

VARIABLES
    mt,             \* the invocations of the account operations: position and locals
    started         \* account operations started so far

mtVars == <<mt, started>>

VARIABLES
    rt              \* the axiosWithRetry call: position, locals and its history

vars == <<procVars, cbVars, mtVars, rt>>

\* --------------------------------------------- persistence queries (pure)
Min(S) == CHOOSE x \in S : \A y \in S : x <= y

\* prisma.wabaAccount.findUnique({ where: { wabaId } }): the rows found
FindAccount_none(accts, wabaId) == {}
FindAccount(accts, wabaId) == {a \in accts : a.wabaId = wabaId}

\* prisma.conversation.findFirst({ where: { wabaAccountId, contactNumber } }):
\* the id of the first row, 0 when there is none
FindConversation(convs, wabaAccountId, from) ==
    LET hit == {k \in DOMAIN convs : /\ convs[k].wabaAccountId = wabaAccountId
                                     /\ convs[k].contactNumber = from}
    IN IF hit = {} THEN 0 ELSE Min(hit)

\* prisma.message.findFirst({ where: { messageId } }): the lookup names the
\* provider message identifier only
FindMessage_never(msgs, messageId) == 0
FindMessage(msgs, messageId) ==
    LET hit == {k \in DOMAIN msgs : msgs[k].messageId = messageId}
    IN IF hit = {} THEN 0 ELSE Min(hit)

\* const body = message.text?.body || message.type
Body(message) == IF message.text # "" THEN message.text ELSE message.type

\* data of prisma.conversation.create
NewConversation(wabaAccountId, from, direction) ==
    [wabaAccountId |-> wabaAccountId, contactNumber |-> from,
     unreadCount |-> IF direction = "inbound" THEN 1 ELSE 0]

\* data of prisma.message.create (to and rawPayload are not kept)
NewMessage(conversationId, wabaAccountId, message, direction) ==
    [conversationId |-> conversationId, wabaAccountId |-> wabaAccountId,
     messageId |-> message.id, from |-> message.from, direction |-> direction,
     status |-> IF direction = "inbound" THEN "delivered" ELSE "pending",
     body |-> Body(message)]

\* prisma.message.updateMany({ where: { wabaAccountId, messageId }, data: { status } })
StatusMatches_anyAccount(msgs, wabaAccountId, status) ==
    {k \in DOMAIN msgs : msgs[k].messageId = status.id}
StatusMatches(msgs, wabaAccountId, status) ==
    {k \in DOMAIN msgs : /\ msgs[k].wabaAccountId = wabaAccountId
                         /\ msgs[k].messageId = status.id}
UpdateMany_keepFirst(msgs, wabaAccountId, status) ==
    [k \in DOMAIN msgs |->
        IF k \in StatusMatches(msgs, wabaAccountId, status) /\ msgs[k].status = "delivered"
        THEN [msgs[k] EXCEPT !.status = status.status] ELSE msgs[k]]
UpdateMany(msgs, wabaAccountId, status) ==
    [k \in DOMAIN msgs |->
        IF k \in StatusMatches(msgs, wabaAccountId, status)
        THEN [msgs[k] EXCEPT !.status = status.status] ELSE msgs[k]]

\* updateMany resolves whatever the number of rows it matched
UpdateManyError_onMiss(msgs, wabaAccountId, status) ==
    IF StatusMatches(msgs, wabaAccountId, status) = {} THEN "RecordNotFound" ELSE Null
UpdateManyError(msgs, wabaAccountId, status) == Null

\* prisma.template.findFirst({ where: { wabaAccountId, name } })
FindTemplate_anyName(tpls, wabaAccountId, name) ==
    LET hit == {k \in DOMAIN tpls : tpls[k].wabaAccountId = wabaAccountId}
    IN IF hit = {} THEN 0 ELSE Min(hit)
FindTemplate(tpls, wabaAccountId, name) ==
    LET hit == {k \in DOMAIN tpls : /\ tpls[k].wabaAccountId = wabaAccountId
                                    /\ tpls[k].name = name}
    IN IF hit = {} THEN 0 ELSE Min(hit)

\* Map Meta events to our status values
TemplateStatus_resets(event, current) ==
    IF event = "APPROVED" THEN "approved"
    ELSE IF event = "REJECTED" THEN "rejected"
    ELSE "pending"
TemplateStatus(event, current) ==
    IF event = "APPROVED" THEN "approved"
    ELSE IF event = "REJECTED" THEN "rejected"
    ELSE current

\* event.toLowerCase()
ToLowerCase(event) ==
    CASE event = "APPROVED" -> "approved"
      [] event = "REJECTED" -> "rejected"
      [] event = "PAUSED" -> "paused"
      [] OTHER -> event

\* history is an object: a set of <<key, value>> with one value per key
HistoryPut(history, key, value) == {e \in history : e[1] # key} \cup {<<key, value>>}

\* historyUpdate = { ...existingHistory, statusUpdate: update };
\* historyUpdate[event.toLowerCase()] = timestamp; approved = timestamp
HistoryUpdate(history, update) ==
    LET h1 == HistoryPut(history, "statusUpdate", update.event)
        h2 == HistoryPut(h1, ToLowerCase(update.event), "ts")
    IN IF update.event = "APPROVED" THEN HistoryPut(h2, "approved", "ts") ELSE h2

\* ------------------------------------------------- the worker's position
IdleWorker == [pc |-> "idle", job |-> 0, acct |-> 0, i |-> 0, conv |-> 0,
               tmpl |-> 0, err |-> Null]

AwaitPcs == {"findAccount", "pm_findConv", "pm_writeConv", "pm_findMsg",
             "pm_createMsg", "ums", "ut_find", "ut_update", "mark"}

CurJob(w) == jobs[wk[w].job]
CurOp(w) == JobOps(CurJob(w))[wk[w].i]

\* where the for-loops of process() go after the op before position i:
\* the next op, the TypeError of a change without value, or line 72
OpPc(ops, i) ==
    IF i > Len(ops) THEN "mark"
    ELSE CASE ops[i].op = "message" -> "pm_findConv"
           [] ops[i].op = "status" -> "ums"
           [] ops[i].op = "template" -> "ut_find"
           [] ops[i].op = "throw" -> "catch"
OpErr(ops, i) ==
    IF i <= Len(ops) /\ ops[i].op = "throw" THEN "TypeError" ELSE Null

Goto(w, i) ==
    [wk[w] EXCEPT !.i = i, !.pc = OpPc(JobOps(CurJob(w)), i),
                  !.err = OpErr(JobOps(CurJob(w)), i), !.conv = 0, !.tmpl = 0]

\* ---------------------------------------------------- Webhook Receiver
NoJob == [eventId |-> 0, wabaId |-> Null, payload |-> Null, attemptsMade |-> 0, st |-> "none"]
\* a job the queue is done with: only its outcome is kept
Finished(job, st) == [job EXCEPT !.st = st, !.wabaId = Null, !.payload = Null, !.attemptsMade = 0]
\* persists WebhookEvent{processed: false} and enqueues {eventId, wabaId, payload}.
Enqueue(j, wabaId, payload) ==
    /\ webhookEvents' = [webhookEvents EXCEPT ![j] = [processed |-> FALSE, error |-> Null]]
    /\ jobs' = [jobs EXCEPT ![j] = [eventId |-> j, wabaId |-> wabaId, payload |-> payload,
                                    attemptsMade |-> 0, st |-> "waiting"]]
    /\ UNCHANGED <<wabaAccounts, conversations, messages, templates, wk, faults,
                   applied, okSnap>>
    /\ UNCHANGED <<cbVars, mtVars, rt>>

\* The queue dispatches sequentially: a callback is taken up once the jobs
\* before it (their retries included) are finished.
Receive(j, wabaId, payload) ==
    /\ jobs[j].st = "none"
    /\ \A k \in JobIds : k < j => jobs[k].st \in {"completed", "failed"}
    /\ \A w \in Workers : wk[w].pc = "idle"
    /\ Enqueue(j, wabaId, payload)

\* The same with more than one consumer: a callback is enqueued while jobs
\* before it are still waiting or active.
ReceiveAny(j, wabaId, payload) ==
    /\ jobs[j].st = "none"
    /\ \A k \in JobIds : k < j => jobs[k].st # "none"
    /\ Enqueue(j, wabaId, payload)

\* --------------------------------------------------- WebhookProcessor.process
SameRun(j) == /\ okSnap # <<>>
              /\ okSnap[1].wabaId = jobs[j].wabaId
              /\ okSnap[1].payload = jobs[j].payload

\* process(job) up to the first await: entry check (lines 16-19)
Begin(w, j) ==
    /\ wk[w].pc = "idle"
    /\ jobs[j].st = "waiting"
    /\ IF ~PayloadOf(jobs[j].payload).hasEntry
       THEN /\ jobs' = [jobs EXCEPT ![j] = Finished(@, "completed")]
            /\ wk' = wk
       ELSE /\ jobs' = [jobs EXCEPT ![j].st = "active"]
            /\ wk' = [wk EXCEPT ![w] = [IdleWorker EXCEPT !.pc = "findAccount", !.job = j]]
    /\ okSnap' = IF SameRun(j) THEN okSnap ELSE <<>>
    /\ UNCHANGED <<wabaAccounts, conversations, messages, templates, webhookEvents,
                   faults, applied>>
    /\ UNCHANGED <<cbVars, mtVars, rt>>

\* lines 25-31
FindAccountStep(w) ==
    /\ wk[w].pc = "findAccount"
    /\ LET found == FindAccount(wabaAccounts, CurJob(w).wabaId) IN
       IF found = {}
       THEN wk' = [wk EXCEPT ![w].pc = "catch", ![w].err = "WABA account not found"]
       ELSE wk' = [wk EXCEPT ![w] = [Goto(w, 1) EXCEPT !.acct = (CHOOSE a \in found : TRUE).id]]
    /\ UNCHANGED <<wabaAccounts, conversations, messages, templates, webhookEvents,
                   jobs, faults, applied, okSnap>>
    /\ UNCHANGED <<cbVars, mtVars, rt>>

\* processMessage lines 109-114
PmFindConv(w) ==
    /\ wk[w].pc = "pm_findConv"
    /\ wk' = [wk EXCEPT ![w].pc = "pm_writeConv",
                        ![w].conv = FindConversation(conversations, wk[w].acct, CurOp(w).arg.from)]
    /\ UNCHANGED <<wabaAccounts, conversations, messages, templates, webhookEvents,
                   jobs, faults, applied, okSnap>>
    /\ UNCHANGED <<cbVars, mtVars, rt>>

\* processMessage lines 116-132, called with direction 'inbound' (line 42)
PmWriteConv(w) ==
    /\ wk[w].pc = "pm_writeConv"
    /\ IF wk[w].conv = 0
       THEN /\ conversations' = Append(conversations,
                                       NewConversation(wk[w].acct, CurOp(w).arg.from, "inbound"))
            /\ wk' = [wk EXCEPT ![w].pc = "pm_findMsg", ![w].conv = Len(conversations) + 1]
       ELSE /\ conversations' = [conversations EXCEPT ![wk[w].conv].unreadCount = @ + 1]
            /\ wk' = [wk EXCEPT ![w].pc = "pm_findMsg"]
    /\ UNCHANGED <<wabaAccounts, messages, templates, webhookEvents,
                   jobs, faults, applied, okSnap>>
    /\ UNCHANGED <<cbVars, mtVars, rt>>

\* processMessage lines 135-139
PmFindMsg(w) ==
    /\ wk[w].pc = "pm_findMsg"
    /\ IF FindMessage(messages, CurOp(w).arg.id) = 0
       THEN wk' = [wk EXCEPT ![w].pc = "pm_createMsg"]
       ELSE wk' = [wk EXCEPT ![w] = [Goto(w, wk[w].i + 1) EXCEPT !.acct = wk[w].acct]]
    /\ UNCHANGED <<wabaAccounts, conversations, messages, templates, webhookEvents,
                   jobs, faults, applied, okSnap>>
    /\ UNCHANGED <<cbVars, mtVars, rt>>

\* processMessage lines 140-152
PmCreateMsg(w) ==
    /\ wk[w].pc = "pm_createMsg"
    /\ messages' = Append(messages, NewMessage(wk[w].conv, wk[w].acct, CurOp(w).arg, "inbound"))
    /\ wk' = [wk EXCEPT ![w] = Goto(w, wk[w].i + 1)]
    /\ UNCHANGED <<wabaAccounts, conversations, templates, webhookEvents,
                   jobs, faults, applied, okSnap>>
    /\ UNCHANGED <<cbVars, mtVars, rt>>

\* updateMessageStatus lines 156-170
UpdateMessageStatus(w) ==
    /\ wk[w].pc = "ums"
    /\ LET status == CurOp(w).arg
           error == UpdateManyError(messages, wk[w].acct, status) IN
       /\ messages' = UpdateMany(messages, wk[w].acct, status)
       /\ wk' = IF error = Null THEN [wk EXCEPT ![w] = Goto(w, wk[w].i + 1)]
                ELSE [wk EXCEPT ![w].pc = "catch", ![w].err = error]
       /\ applied' = IF StatusMatches(messages, wk[w].acct, status) = {}
                     THEN applied
                     ELSE [applied EXCEPT ![<<wk[w].acct, status.id>>] = Append(@, status.status)]
    /\ UNCHANGED <<wabaAccounts, conversations, templates, webhookEvents,
                   jobs, faults, okSnap>>
    /\ UNCHANGED <<cbVars, mtVars, rt>>

\* updateTemplateStatus lines 172-193
UtFind(w) ==
    /\ wk[w].pc = "ut_find"
    /\ LET update == CurOp(w).arg
           found == FindTemplate(templates, wk[w].acct, update.name) IN
       IF update.name = Null \/ found = 0
       THEN wk' = [wk EXCEPT ![w] = Goto(w, wk[w].i + 1)]
       ELSE wk' = [wk EXCEPT ![w].pc = "ut_update", ![w].tmpl = found]
    /\ UNCHANGED <<wabaAccounts, conversations, messages, templates, webhookEvents,
                   jobs, faults, applied, okSnap>>
    /\ UNCHANGED <<cbVars, mtVars, rt>>

\* updateTemplateStatus lines 195-227; event.toLowerCase() of a missing
\* event raises a TypeError before the update is issued
UtUpdate(w) ==
    /\ wk[w].pc = "ut_update"
    /\ LET update == CurOp(w).arg
           template == templates[wk[w].tmpl] IN
       IF update.event = Null
       THEN /\ wk' = [wk EXCEPT ![w].pc = "catch", ![w].err = "TypeError"]
            /\ templates' = templates
       ELSE /\ templates' = [templates EXCEPT ![wk[w].tmpl] =
                   [template EXCEPT !.status = TemplateStatus(update.event, template.status),
                                    !.history = HistoryUpdate(template.history, update)]]
            /\ wk' = [wk EXCEPT ![w] = Goto(w, wk[w].i + 1)]
    /\ UNCHANGED <<wabaAccounts, conversations, messages, webhookEvents,
                   jobs, faults, applied, okSnap>>
    /\ UNCHANGED <<cbVars, mtVars, rt>>

\* lines 71-75: mark event as processed; the job completes
MarkProcessed(w) ==
    /\ wk[w].pc = "mark"
    /\ webhookEvents' = [webhookEvents EXCEPT ![CurJob(w).eventId].processed = TRUE]
    /\ jobs' = [jobs EXCEPT ![wk[w].job] = Finished(@, "completed")]
    /\ wk' = [wk EXCEPT ![w] = IdleWorker]
    /\ okSnap' = IF SameRun(wk[w].job) THEN okSnap
                 ELSE <<[wabaId |-> CurJob(w).wabaId, payload |-> CurJob(w).payload,
                         conversations |-> conversations, messages |-> messages,
                         templates |-> templates]>>
    /\ UNCHANGED <<wabaAccounts, conversations, messages, templates,
                   faults, applied>>
    /\ UNCHANGED <<cbVars, mtVars, rt>>

\* a persistence call of the try block rejects
Fault(w) ==
    /\ wk[w].pc \in AwaitPcs
    /\ faults < MaxFaults
    /\ faults' = faults + 1
    /\ wk' = [wk EXCEPT ![w].pc = "catch", ![w].err = "PrismaError"]
    /\ UNCHANGED <<wabaAccounts, conversations, messages, templates, webhookEvents,
                   jobs, applied, okSnap>>
    /\ UNCHANGED <<cbVars, mtVars, rt>>

\* lines 76-99: record the error, then re-raise below maxAttempts. A re-raised
\* job is retried by the queue with attemptsMade incremented, or given up by
\* it, as the queue's own attempts option decides.
Catch_rollsBack(w) ==
    /\ wk[w].pc = "catch"
    /\ webhookEvents' = [webhookEvents EXCEPT ![CurJob(w).eventId] =
                            [processed |-> TRUE, error |-> wk[w].err]]
    /\ LET attemptsMade == CurJob(w).attemptsMade IN
       IF attemptsMade < maxAttempts
       THEN \/ jobs' = [jobs EXCEPT ![wk[w].job].st = "waiting",
                                    ![wk[w].job].attemptsMade = attemptsMade + 1]
            \/ jobs' = [jobs EXCEPT ![wk[w].job] = Finished(@, "failed")]
       ELSE jobs' = [jobs EXCEPT ![wk[w].job] = Finished(@, "completed")]
    /\ wk' = [wk EXCEPT ![w] = IdleWorker]
    /\ conversations' = <<>>
    /\ messages' = <<>>
    /\ UNCHANGED <<wabaAccounts, templates, faults, applied, okSnap>>
    /\ UNCHANGED <<cbVars, mtVars, rt>>
Catch(w) ==
    /\ wk[w].pc = "catch"
    /\ webhookEvents' = [webhookEvents EXCEPT ![CurJob(w).eventId] =
                            [processed |-> TRUE, error |-> wk[w].err]]
    /\ LET attemptsMade == CurJob(w).attemptsMade IN
       IF attemptsMade < maxAttempts
       THEN \/ jobs' = [jobs EXCEPT ![wk[w].job].st = "waiting",
                                    ![wk[w].job].attemptsMade = attemptsMade + 1]
            \/ jobs' = [jobs EXCEPT ![wk[w].job] = Finished(@, "failed")]
       ELSE jobs' = [jobs EXCEPT ![wk[w].job] = Finished(@, "completed")]
    /\ wk' = [wk EXCEPT ![w] = IdleWorker]
    /\ UNCHANGED <<wabaAccounts, conversations, messages, templates,
                   faults, applied, okSnap>>
    /\ UNCHANGED <<cbVars, mtVars, rt>>

\* -------------------------------------------- WabaService.axiosWithRetry
\* what the request thunk can give: a response, or an axios error with its
\* code, the HTTP status of its response (0 when there is none) and whether
\* its message contains 'timeout' or 'ETIMEDOUT'
Outcome(code, status, timeoutText) == [code |-> code, status |-> status, timeoutText |-> timeoutText]
Response == Outcome("OK", 200, FALSE)
RequestErrors ==
    {Outcome("ETIMEDOUT", 0, TRUE), Outcome("ECONNRESET", 0, FALSE),
     Outcome("ENOTFOUND", 0, FALSE), Outcome("ECONNREFUSED", 0, FALSE),
     Outcome("ECONNABORTED", 0, TRUE), Outcome("ERR_BAD_RESPONSE", 500, FALSE),
     Outcome("ERR_BAD_RESPONSE", 503, FALSE), Outcome("ERR_BAD_REQUEST", 400, FALSE),
     Outcome("ERR_BAD_REQUEST", 404, FALSE), Outcome("ERR_NETWORK", 0, FALSE)}

\* lines 540-547
IsRetryable_always(error) == TRUE
IsRetryable(error) ==
    \/ error.code = "ETIMEDOUT"
    \/ error.code = "ECONNRESET"
    \/ error.code = "ENOTFOUND"
    \/ error.code = "ECONNREFUSED"
    \/ (error.status >= 500 /\ error.status < 600)
    \/ error.timeoutText

\* line 549: attempt === maxRetries
LastAttempt_late(attempt, maxRetries) == attempt = maxRetries + 1
LastAttempt(attempt, maxRetries) == attempt = maxRetries

IdleRetry == [pc |-> "idle", maxRetries |-> 0, retryDelay |-> 0, attempt |-> 0,
              invoked |-> 0, outcomes |-> <<>>, delays |-> <<>>,
              result |-> "none", answer |-> Response]

\* lines 526-535: the call enters the loop and invokes the thunk
AxiosWithRetry(maxRetries, retryDelay) ==
    /\ rt.pc = "idle"
    /\ rt' = [IdleRetry EXCEPT !.pc = "request", !.maxRetries = maxRetries,
                               !.retryDelay = retryDelay, !.attempt = 1, !.invoked = 1]
    /\ UNCHANGED <<procVars, cbVars, mtVars>>

\* line 535: the thunk resolves; its response is returned
RequestResolves ==
    /\ rt.pc = "request"
    /\ rt' = [rt EXCEPT !.pc = "done", !.outcomes = Append(@, Response),
                        !.result = "response", !.answer = Response]
    /\ UNCHANGED <<procVars, cbVars, mtVars>>

\* lines 536-560: the thunk rejects; the error is thrown or the delay starts
RequestRejects(error) ==
    /\ rt.pc = "request"
    /\ rt' = IF ~IsRetryable(error) \/ LastAttempt(rt.attempt, rt.maxRetries)
             THEN [rt EXCEPT !.pc = "done", !.outcomes = Append(@, error),
                             !.result = "error", !.answer = error]
             ELSE [rt EXCEPT !.pc = "sleep", !.outcomes = Append(@, error),
                             !.delays = Append(@, rt.retryDelay * rt.attempt)]
    /\ UNCHANGED <<procVars, cbVars, mtVars>>

\* lines 558-560 and 533-535: the delay ends; the next pass of the loop
\* invokes the thunk again
RetryAfterDelay ==
    /\ rt.pc = "sleep"
    /\ rt' = [rt EXCEPT !.pc = "request", !.attempt = @ + 1, !.invoked = @ + 1]
    /\ UNCHANGED <<procVars, cbVars, mtVars>>

\* ----------------------------------------------------------- WabaService
\* EncryptionUtil.encrypt / decrypt (opaque collaborator)
\* the access tokens the provider hands out
Tokens == {"short", "long", "fresh"}
Encrypt(token) ==
    CASE token = "short" -> "enc(short)"
      [] token = "long" -> "enc(long)"
      [] token = "fresh" -> "enc(fresh)"
      [] OTHER -> "enc()"
Decrypt(encrypted) ==
    CASE encrypted = "enc(short)" -> "short"
      [] encrypted = "enc(long)" -> "long"
      [] encrypted = "enc(fresh)" -> "fresh"
      [] OTHER -> ""

PlaceholderNumber == "No phone number - Add one in Meta Business Manager"

\* `pending-${wabaId}`
PendingPhoneId(wabaId) ==
    CASE wabaId = "W1" -> "pending-W1"
      [] wabaId = "W2" -> "pending-W2"
      [] OTHER -> "pending"

\* what the phone_numbers call can answer: a list with a phone identity, an
\* empty list, or a failure (after the retries of axiosWithRetry)
PhoneResponses == {"list", "empty", "failed"}

\* lines 950-996 (and 1236-1257): the phone identity kept from the answer,
\* the placeholders when there is none
PhoneDiscovery_noPlaceholder(response, wabaId) ==
    IF response = "list"
    THEN [phoneId |-> "P1", displayNumber |-> "+5511", hasPhoneNumbers |-> TRUE]
    ELSE [phoneId |-> Null, displayNumber |-> Null, hasPhoneNumbers |-> FALSE]
PhoneDiscovery(response, wabaId) ==
    IF response = "list"
    THEN [phoneId |-> "P1", displayNumber |-> "+5511", hasPhoneNumbers |-> TRUE]
    ELSE [phoneId |-> PendingPhoneId(wabaId), displayNumber |-> PlaceholderNumber,
          hasPhoneNumbers |-> FALSE]

AccountRow(id, wabaId, shopId, phoneId, displayNumber, encryptedToken, tokenExpiresAt, verified) ==
    [id |-> id, wabaId |-> wabaId, shopId |-> shopId, phoneId |-> phoneId,
     displayNumber |-> displayNumber, encryptedToken |-> encryptedToken,
     tokenExpiresAt |-> tokenExpiresAt, webhookVerified |-> verified]

IdleCall == [pc |-> "idle", code |-> Null, state |-> <<"">>, shopId |-> Null,
             accessToken |-> Null, tokenExpiresAt |-> Null,
             wabaIdsFromToken |-> <<>>, businessIds |-> <<>>, wabaId |-> Null,
             phoneId |-> Null, displayNumber |-> Null, hasPhoneNumbers |-> FALSE,
             existingWaba |-> FALSE, result |-> "none", error |-> Null,
             issued |-> FALSE, replay |-> FALSE, noWaba |-> FALSE, added |-> FALSE,
             phones |-> Null]

Calls == {"h1", "h2"}

\* ------------------------------------------------ handleCallback inputs
Codes == {"c1", "c2"}
\* the state parameter, as split(':') returns it
CbStates == {<<"s1", "new">>, <<"s1", "existing">>, <<"s9", "new">>, <<"">>}
\* prisma.shop
Shops == {"s1", "s2"}

\* const shopId = parts[0] || state || null: an empty first part leaves the
\* whole state string, which is empty or starts with ':' and names no shop
ShopIdOf(state) ==
    IF state[1] # "" THEN state[1]
    ELSE IF Len(state) > 1 THEN "state-string" ELSE Null

\* line 834: state?.includes(':') ? state.split(':')[1] : 'new'
ConnectionTypeOf(state) == IF Len(state) > 1 THEN state[2] ELSE "new"

\* the texts raised when no WABA is resolved (lines 842, 878, 888, 897); each
\* tells the user that the account must be directly accessible
NotDirectlyAccessibleErrors ==
    {"ExistingWabaNotAccessible", "UnableToAccess", "FailedToAccess", "NoWabaFound"}

\* what the catch of Method 3 does with the provider's error (lines 820-893):
\* a result to return, or a text to raise
Method3Failure_alwaysSignup(errorCode, permissionText, state) ==
    IF errorCode = 100
    THEN [result |-> "needsEmbeddedSignup", error |-> Null]
    ELSE IF errorCode = 200 \/ permissionText
         THEN [result |-> "error", error |-> "UnableToAccess"]
         ELSE [result |-> "error", error |-> "FailedToAccess"]
Method3Failure(errorCode, permissionText, state) ==
    IF errorCode = 100
    THEN IF ConnectionTypeOf(state) = "existing"
         THEN [result |-> "error", error |-> "ExistingWabaNotAccessible"]
         ELSE [result |-> "needsEmbeddedSignup", error |-> Null]
    ELSE IF errorCode = 200 \/ permissionText
         THEN [result |-> "error", error |-> "UnableToAccess"]
         ELSE [result |-> "error", error |-> "FailedToAccess"]

\* the provider errors Method 3 can meet: <<error code, text mentions permission>>
Method3Errors == {<<100, FALSE>>, <<200, FALSE>>, <<190, TRUE>>, <<0, FALSE>>}

\* needsPhoneNumber: !hasPhoneNumbers (line 1061)
NeedsPhoneNumber(call) == ~call.hasPhoneNumbers

\* what an invocation keeps once it has returned or raised
Done(call, result, error) ==
    [IdleCall EXCEPT !.pc = "done", !.code = call.code, !.state = call.state,
                     !.result = result, !.error = error, !.issued = call.issued,
                     !.replay = call.replay, !.noWaba = call.noWaba,
                     !.added = call.added, !.phones = call.phones,
                     !.wabaId = IF result = "success" THEN call.wabaId ELSE Null,
                     !.hasPhoneNumbers = IF result = "success" THEN call.hasPhoneNumbers ELSE FALSE]

Active(h) == hc[h].pc \notin {"idle", "done"}

\* where handleCallback goes once wabaId is set: the details call is made
\* only when no business id is known (line 907)
AfterDiscovery_triesNext(call) ==
    [call EXCEPT !.pc = IF call.pc = "method1" THEN "method2"
                        ELSE IF Len(call.businessIds) > 0 THEN "phones" ELSE "details"]
AfterDiscovery(call) ==
    [call EXCEPT !.pc = IF Len(call.businessIds) > 0 THEN "phones" ELSE "details"]

\* lines 761-798: the method tried after Method 1 left wabaId unset
AfterMethod1_aborts(call) ==
    Done([call EXCEPT !.noWaba = TRUE], "error", "NoWabaFound")
AfterMethod1(call) ==
    [call EXCEPT !.pc = IF Len(call.businessIds) > 0 THEN "method2" ELSE "method3"]

\* a finished invocation hands its result or error to the controller before
\* anything else is observed
Settled == /\ \A h \in Calls : hc[h].pc # "done"
           /\ \A m \in DOMAIN mt : mt[m].pc # "done"

Return(h) ==
    /\ hc[h].pc = "done"
    /\ hc' = [hc EXCEPT ![h] = IdleCall]
    /\ UNCHANGED <<usedCodes, redeemed, calls, regs, nextAccountId, succeeded>>
    /\ UNCHANGED <<procVars, mtVars, rt>>

\* lines 567-581, up to the first await
Invoke(h, code, state) ==
    /\ Settled
    /\ ~Active(h)
    /\ calls < MaxCalls
    /\ calls' = calls + 1
    /\ LET shopId == ShopIdOf(state)
           start == [IdleCall EXCEPT !.code = code, !.state = state, !.shopId = shopId,
                        !.replay = /\ code \in redeemed
                                   /\ \A o \in Calls \ {h} : ~(Active(o) /\ hc[o].code = code)]
       IN hc' = [hc EXCEPT ![h] = IF shopId = Null THEN Done(start, "error", "MissingShop")
                                  ELSE [start EXCEPT !.pc = "findShop"]]
    /\ UNCHANGED <<usedCodes, redeemed, regs, nextAccountId, succeeded>>
    /\ UNCHANGED <<procVars, mtVars, rt>>

\* lines 583-628: the shop lookup returns; the used-code check and the issue
\* of the exchange call follow without an await in between
FindShop_anyShop(h) ==
    /\ Settled
    /\ hc[h].pc = "findShop"
    /\ hc' = [hc EXCEPT ![h] =
                IF hc[h].code \in usedCodes THEN Done(hc[h], "error", "CodeAlreadyUsed")
                ELSE [hc[h] EXCEPT !.pc = "exchange", !.issued = TRUE]]
    /\ UNCHANGED <<usedCodes, redeemed, calls, regs, nextAccountId, succeeded>>
    /\ UNCHANGED <<procVars, mtVars, rt>>
FindShop(h) ==
    /\ Settled
    /\ hc[h].pc = "findShop"
    /\ hc' = [hc EXCEPT ![h] =
                IF hc[h].shopId \notin Shops THEN Done(hc[h], "error", "InvalidShop")
                ELSE IF hc[h].code \in usedCodes THEN Done(hc[h], "error", "CodeAlreadyUsed")
                ELSE [hc[h] EXCEPT !.pc = "exchange", !.issued = TRUE]]
    /\ UNCHANGED <<usedCodes, redeemed, calls, regs, nextAccountId, succeeded>>
    /\ UNCHANGED <<procVars, mtVars, rt>>

\* lines 1065-1083: the catch of handleCallback
Raise_keepsCode(h, call, error) ==
    /\ usedCodes' = usedCodes
    /\ hc' = [hc EXCEPT ![h] = Done(call, "error", error)]
Raise(h, call, error) ==
    /\ usedCodes' = usedCodes \ {call.code}
    /\ hc' = [hc EXCEPT ![h] = Done(call, "error", error)]

\* lines 612-634: the exchange call returns (after the retries of
\* axiosWithRetry); the provider redeems a code once
ExchangeOk(h) ==
    /\ Settled
    /\ hc[h].pc = "exchange"
    /\ hc[h].code \notin redeemed
    /\ redeemed' = redeemed \cup {hc[h].code}
    /\ usedCodes' = usedCodes \cup {hc[h].code}
    /\ hc' = [hc EXCEPT ![h].pc = "longLived", ![h].accessToken = "short", ![h].added = TRUE]
    /\ UNCHANGED <<calls, regs, nextAccountId, succeeded>>
    /\ UNCHANGED <<procVars, mtVars, rt>>

ExchangeFails(h) ==
    /\ Settled
    /\ hc[h].pc = "exchange"
    /\ Raise(h, hc[h], "ExchangeFailed")
    /\ UNCHANGED <<redeemed, calls, regs, nextAccountId, succeeded>>
    /\ UNCHANGED <<procVars, mtVars, rt>>

\* lines 638-671: long-lived exchange, best effort
LongLived_fatal(h, token, expiresIn) ==
    /\ Settled
    /\ hc[h].pc = "longLived"
    /\ IF token
       THEN /\ hc' = [hc EXCEPT ![h].pc = "debug", ![h].accessToken = "long",
                                ![h].tokenExpiresAt = IF expiresIn THEN "exp" ELSE Null]
            /\ usedCodes' = usedCodes
       ELSE Raise(h, hc[h], "ExchangeFailed")
    /\ UNCHANGED <<redeemed, calls, regs, nextAccountId, succeeded>>
    /\ UNCHANGED <<procVars, mtVars, rt>>
LongLived(h, token, expiresIn) ==
    /\ Settled
    /\ hc[h].pc = "longLived"
    /\ hc' = [hc EXCEPT ![h].pc = "debug",
                        ![h].accessToken = IF token THEN "long" ELSE hc[h].accessToken,
                        ![h].tokenExpiresAt = IF token /\ expiresIn THEN "exp" ELSE Null]
    /\ UNCHANGED <<usedCodes, redeemed, calls, regs, nextAccountId, succeeded>>
    /\ UNCHANGED <<procVars, mtVars, rt>>

\* lines 678-722: debug_token, best effort; a failed call leaves both lists empty
DebugToken(h, wabaIds, bizIds) ==
    /\ Settled
    /\ hc[h].pc = "debug"
    /\ hc' = [hc EXCEPT ![h] =
                LET c == [hc[h] EXCEPT !.wabaIdsFromToken = wabaIds, !.businessIds = bizIds]
                IN IF Len(wabaIds) > 0 THEN [c EXCEPT !.pc = "method1"] ELSE AfterMethod1(c)]
    /\ UNCHANGED <<usedCodes, redeemed, calls, regs, nextAccountId, succeeded>>
    /\ UNCHANGED <<procVars, mtVars, rt>>

\* lines 722-759: Method 1; found = the response carries an id, business =
\* it carries the business of the WABA; a failed call finds nothing
Method1(h, found, business) ==
    /\ Settled
    /\ hc[h].pc = "method1"
    /\ hc' = [hc EXCEPT ![h] =
                IF found
                THEN AfterDiscovery([hc[h] EXCEPT !.wabaId = hc[h].wabaIdsFromToken[1],
                                        !.businessIds = IF business THEN <<"B1">> ELSE @])
                ELSE AfterMethod1(hc[h])]
    /\ UNCHANGED <<usedCodes, redeemed, calls, regs, nextAccountId, succeeded>>
    /\ UNCHANGED <<procVars, mtVars, rt>>

\* lines 764-795: Method 2; an empty list or a failed call finds nothing
Method2(h, list) ==
    /\ Settled
    /\ hc[h].pc = "method2"
    /\ hc' = [hc EXCEPT ![h] =
                IF Len(list) > 0 THEN AfterDiscovery([hc[h] EXCEPT !.wabaId = list[1]])
                ELSE [hc[h] EXCEPT !.pc = "method3"]]
    /\ UNCHANGED <<usedCodes, redeemed, calls, regs, nextAccountId, succeeded>>
    /\ UNCHANGED <<procVars, mtVars, rt>>

\* lines 798-819 and 896-901: Method 3 returns a list
Method3List(h, list) ==
    /\ Settled
    /\ hc[h].pc = "method3"
    /\ IF Len(list) > 0
       THEN /\ hc' = [hc EXCEPT ![h] = AfterDiscovery([hc[h] EXCEPT !.wabaId = list[1]])]
            /\ usedCodes' = usedCodes
       ELSE Raise(h, [hc[h] EXCEPT !.noWaba = TRUE], "NoWabaFound")
    /\ UNCHANGED <<redeemed, calls, regs, nextAccountId, succeeded>>
    /\ UNCHANGED <<procVars, mtVars, rt>>

\* lines 820-893: Method 3 fails; a raised text passes through the catch of
\* handleCallback, the needs-signup result is returned
Method3Fails(h, err) ==
    /\ Settled
    /\ hc[h].pc = "method3"
    /\ LET out == Method3Failure(err[1], err[2], hc[h].state) IN
       IF out.result = "error"
       THEN Raise(h, [hc[h] EXCEPT !.noWaba = TRUE], out.error)
       ELSE /\ hc' = [hc EXCEPT ![h] = Done([hc[h] EXCEPT !.noWaba = TRUE], out.result, Null)]
            /\ usedCodes' = usedCodes
    /\ UNCHANGED <<redeemed, calls, regs, nextAccountId, succeeded>>
    /\ UNCHANGED <<procVars, mtVars, rt>>

\* lines 903-948: WABA details, best effort (businessId and messagingEnabled
\* are not kept)
Details(h) ==
    /\ Settled
    /\ hc[h].pc = "details"
    /\ hc' = [hc EXCEPT ![h].pc = "phones"]
    /\ UNCHANGED <<usedCodes, redeemed, calls, regs, nextAccountId, succeeded>>
    /\ UNCHANGED <<procVars, mtVars, rt>>

\* lines 950-1004: phone numbers, best effort, then the placeholders
Phones(h, response) ==
    /\ Settled
    /\ hc[h].pc = "phones"
    /\ LET phone == PhoneDiscovery(response, hc[h].wabaId) IN
       hc' = [hc EXCEPT ![h].pc = "upsertFind", ![h].businessIds = <<>>,
                        ![h].wabaIdsFromToken = <<>>,
                        ![h].phones = response,
                        ![h].hasPhoneNumbers = phone.hasPhoneNumbers,
                        ![h].phoneId = phone.phoneId,
                        ![h].displayNumber = phone.displayNumber]
    /\ UNCHANGED <<usedCodes, redeemed, calls, regs, nextAccountId, succeeded>>
    /\ UNCHANGED <<procVars, mtVars, rt>>

\* lines 1001-1007: findUnique({ where: { wabaId } }) returns
UpsertFind(h) ==
    /\ Settled
    /\ hc[h].pc = "upsertFind"
    /\ hc' = [hc EXCEPT ![h].pc = "upsertWrite",
                        ![h].existingWaba = FindAccount(wabaAccounts, hc[h].wabaId) # {}]
    /\ UNCHANGED <<usedCodes, redeemed, calls, regs, nextAccountId, succeeded>>
    /\ UNCHANGED <<procVars, mtVars, rt>>

\* data of the update and of the create (lines 1008-1033)
UpsertData_plaintext(call, row) ==
    [row EXCEPT !.shopId = call.shopId, !.phoneId = call.phoneId,
                !.displayNumber = call.displayNumber,
                !.encryptedToken = call.accessToken,
                !.tokenExpiresAt = call.tokenExpiresAt]
UpsertData(call, row) ==
    [row EXCEPT !.shopId = call.shopId, !.phoneId = call.phoneId,
                !.displayNumber = call.displayNumber,
                !.encryptedToken = Encrypt(call.accessToken),
                !.tokenExpiresAt = call.tokenExpiresAt]

\* lines 1008-1051: the write returns; registerWebhook is started and not
\* awaited. An update of a row that is gone and a create of a wabaId that
\* exists are rejected by the database.
UpsertWrite(h) ==
    /\ Settled
    /\ hc[h].pc = "upsertWrite"
    /\ LET found == FindAccount(wabaAccounts, hc[h].wabaId) IN
       IF hc[h].existingWaba = (found # {})
       THEN /\ wabaAccounts' =
                  IF found # {}
                  THEN (wabaAccounts \ found) \cup {UpsertData(hc[h], a) : a \in found}
                  ELSE wabaAccounts \cup
                       {UpsertData(hc[h], AccountRow(nextAccountId, hc[h].wabaId, Null, Null,
                                                     Null, Encrypt(Null), Null, FALSE))}
            /\ nextAccountId' = IF found # {} THEN nextAccountId ELSE nextAccountId + 1
            /\ regs' = regs \cup {[wabaId |-> hc[h].wabaId, pc |-> "post", caller |-> Null]}
            /\ hc' = [hc EXCEPT ![h].pc = "shopName"]
            /\ usedCodes' = usedCodes
       ELSE /\ Raise(h, hc[h], "PrismaError")
            /\ UNCHANGED <<wabaAccounts, nextAccountId, regs>>
    /\ UNCHANGED <<redeemed, calls, succeeded>>
    /\ UNCHANGED <<conversations, messages, templates, webhookEvents, jobs, wk,
                   faults, applied, okSnap>>
    /\ UNCHANGED <<mtVars, rt>>

\* lines 1047-1064: the shop name lookup returns; success result
ShopName(h) ==
    /\ Settled
    /\ hc[h].pc = "shopName"
    /\ hc' = [hc EXCEPT ![h] = Done(hc[h], "success", Null)]
    /\ succeeded' = succeeded \cup {hc[h].code}
    /\ UNCHANGED <<usedCodes, redeemed, calls, regs, nextAccountId>>
    /\ UNCHANGED <<procVars, mtVars, rt>>

\* ------------------------------------------------ the account operations
MaintCalls == {"a1", "a2"}
\* the account ids the operations are called with; 9 names no Account
AccountIds == {1, 9}

IdleOp == [op |-> "none", pc |-> "idle", accountId |-> 0, wabaId |-> Null,
           token |-> Null, currentToken |-> Null, tokenExpiresAt |-> Null,
           phoneId |-> Null, displayNumber |-> Null, hasPhoneNumbers |-> FALSE,
           result |-> "none", error |-> Null, regFailed |-> FALSE]

\* what an operation keeps once it has returned or raised
OpDone(call, result, error) ==
    [IdleOp EXCEPT !.op = call.op, !.pc = "done", !.accountId = call.accountId,
                   !.result = result, !.error = error, !.regFailed = call.regFailed]

\* prisma.wabaAccount.findUnique({ where: { id: accountId } }): the rows found
FindAccountById(accts, accountId) == {a \in accts : a.id = accountId}

\* the first lines of each operation, up to the issue of findUnique
StartOp(m, op, accountId) ==
    /\ Settled
    /\ mt[m].pc = "idle"
    /\ started < MaxOps
    /\ started' = started + 1
    /\ mt' = [mt EXCEPT ![m] = [IdleOp EXCEPT !.op = op, !.pc = "find", !.accountId = accountId]]
    /\ UNCHANGED <<cbVars, rt>>
    /\ UNCHANGED procVars

\* the operation has returned to the controller
ReturnOp(m) ==
    /\ mt[m].pc = "done"
    /\ mt' = [mt EXCEPT ![m] = IdleOp]
    /\ UNCHANGED started
    /\ UNCHANGED <<cbVars, rt>>
    /\ UNCHANGED procVars

\* registerWebhook has returned to the caller that awaits it: it resolves
\* whether the subscription call failed or not (lines 1113-1121)
RegisterReturns(r, failed) ==
    IF r.caller = Null THEN mt
    ELSE [mt EXCEPT ![r.caller] = OpDone([@ EXCEPT !.regFailed = failed], "success", Null)]

\* what a failed registration does to the handleCallback invocations: the
\* catch of registerWebhook swallows the error (lines 1113-1121) and the
\* promise is not awaited (line 1036)
AfterRegisterFailure_propagates(r) ==
    [h \in Calls |-> IF hc[h].pc = "shopName" /\ hc[h].wabaId = r.wabaId
                     THEN Done(hc[h], "error", "RegisterFailed") ELSE hc[h]]
AfterRegisterFailure(r) == hc

\* registerWebhook lines 1089-1122: the subscribed_apps call returns
RegisterPost(r, ok) ==
    /\ Settled
    /\ r \in regs
    /\ r.pc = "post"
    /\ regs' = IF ok THEN (regs \ {r}) \cup {[r EXCEPT !.pc = "update"]} ELSE regs \ {r}
    /\ mt' = IF ok THEN mt ELSE RegisterReturns(r, TRUE)
    /\ hc' = IF ok THEN hc ELSE AfterRegisterFailure(r)
    /\ UNCHANGED <<usedCodes, redeemed, calls, nextAccountId, succeeded, started, rt>>
    /\ UNCHANGED procVars

\* registerWebhook lines 1106-1110: webhookVerified is set; the update of a
\* missing row raises into the catch of registerWebhook
RegisterUpdate_everyAccount(r) ==
    /\ Settled
    /\ r \in regs
    /\ r.pc = "update"
    /\ regs' = regs \ {r}
    /\ wabaAccounts' = {[a EXCEPT !.webhookVerified = TRUE] : a \in wabaAccounts}
    /\ mt' = RegisterReturns(r, FALSE)
    /\ UNCHANGED <<usedCodes, redeemed, hc, calls, nextAccountId, succeeded, started, rt>>
    /\ UNCHANGED <<conversations, messages, templates, webhookEvents, jobs, wk,
                   faults, applied, okSnap>>
RegisterUpdate(r) ==
    /\ Settled
    /\ r \in regs
    /\ r.pc = "update"
    /\ regs' = regs \ {r}
    /\ wabaAccounts' = {IF a.wabaId = r.wabaId THEN [a EXCEPT !.webhookVerified = TRUE] ELSE a
                            : a \in wabaAccounts}
    /\ mt' = RegisterReturns(r, FALSE)
    /\ UNCHANGED <<usedCodes, redeemed, hc, calls, nextAccountId, succeeded, started, rt>>
    /\ UNCHANGED <<conversations, messages, templates, webhookEvents, jobs, wk,
                   faults, applied, okSnap>>

\* registerWebhookForAccount lines 1127-1131
RegisterWebhookForAccount(m, accountId) == StartOp(m, "register", accountId)

\* registerWebhookForAccount lines 1133-1141: findUnique returns; the token is
\* decrypted and registerWebhook is called and awaited
RwFind(m) ==
    /\ Settled
    /\ mt[m].pc = "find"
    /\ mt[m].op = "register"
    /\ LET found == FindAccountById(wabaAccounts, mt[m].accountId) IN
       IF found = {}
       THEN /\ mt' = [mt EXCEPT ![m] = OpDone(@, "error", "WABA account not found")]
            /\ regs' = regs
       ELSE LET wabaAccount == CHOOSE a \in found : TRUE IN
            /\ mt' = [mt EXCEPT ![m].pc = "await", ![m].wabaId = wabaAccount.wabaId,
                                ![m].token = Decrypt(wabaAccount.encryptedToken)]
            /\ regs' = regs \cup {[wabaId |-> wabaAccount.wabaId, pc |-> "post", caller |-> m]}
    /\ UNCHANGED <<usedCodes, redeemed, hc, calls, nextAccountId, succeeded, started, rt>>
    /\ UNCHANGED procVars

\* refreshTokenForAccount lines 1147-1150
RefreshTokenForAccount(m, accountId) == StartOp(m, "refresh", accountId)

\* refreshTokenForAccount lines 1152-1172: findUnique returns; the current
\* token is decrypted and the exchange call is issued
RfFind(m) ==
    /\ Settled
    /\ mt[m].pc = "find"
    /\ mt[m].op = "refresh"
    /\ LET found == FindAccountById(wabaAccounts, mt[m].accountId) IN
       IF found = {}
       THEN mt' = [mt EXCEPT ![m] = OpDone(@, "error", "WABA account not found")]
       ELSE mt' = [mt EXCEPT ![m].pc = "exchange",
                             ![m].currentToken =
                                 Decrypt((CHOOSE a \in found : TRUE).encryptedToken)]
    /\ UNCHANGED started
    /\ UNCHANGED <<cbVars, rt>>
    /\ UNCHANGED procVars

\* what the fb_exchange_token call can answer
RefreshResponses == {"token", "tokenNoExpiry", "noToken", "failed"}

\* refreshTokenForAccount lines 1174-1183 and 1201-1206: the exchange returns
RfExchange(m, response) ==
    /\ Settled
    /\ mt[m].pc = "exchange"
    /\ mt' = [mt EXCEPT ![m] =
                IF response \in {"token", "tokenNoExpiry"}
                THEN [@ EXCEPT !.pc = "update", !.token = "fresh",
                               !.tokenExpiresAt = IF response = "token" THEN "exp2" ELSE Null]
                ELSE OpDone(@, "error", "Failed to refresh token")]
    /\ UNCHANGED started
    /\ UNCHANGED <<cbVars, rt>>
    /\ UNCHANGED procVars

\* data of the update of refreshTokenForAccount (lines 1176, 1186-1192)
RefreshData_resetsVerified(call, row) ==
    [row EXCEPT !.encryptedToken = Encrypt(call.token),
                !.tokenExpiresAt = call.tokenExpiresAt,
                !.webhookVerified = FALSE]
RefreshData(call, row) ==
    [row EXCEPT !.encryptedToken = Encrypt(call.token),
                !.tokenExpiresAt = call.tokenExpiresAt]

\* refreshTokenForAccount lines 1185-1206: the update returns; the update of
\* a row that is gone raises into the catch
RfUpdate(m) ==
    /\ Settled
    /\ mt[m].pc = "update"
    /\ mt[m].op = "refresh"
    /\ LET found == FindAccountById(wabaAccounts, mt[m].accountId) IN
       /\ wabaAccounts' = (wabaAccounts \ found) \cup {RefreshData(mt[m], a) : a \in found}
       /\ mt' = [mt EXCEPT ![m] = IF found = {} THEN OpDone(@, "error", "Failed to refresh token")
                                  ELSE OpDone(@, "success", Null)]
    /\ UNCHANGED started
    /\ UNCHANGED <<cbVars, rt>>
    /\ UNCHANGED <<conversations, messages, templates, webhookEvents, jobs, wk,
                   faults, applied, okSnap>>

\* syncPhoneNumbersForAccount lines 1212-1215
SyncPhoneNumbersForAccount(m, accountId) == StartOp(m, "sync", accountId)

\* syncPhoneNumbersForAccount lines 1217-1234: findUnique returns; the token
\* is decrypted and the phone_numbers call is issued
SpFind(m) ==
    /\ Settled
    /\ mt[m].pc = "find"
    /\ mt[m].op = "sync"
    /\ LET found == FindAccountById(wabaAccounts, mt[m].accountId) IN
       IF found = {}
       THEN mt' = [mt EXCEPT ![m] = OpDone(@, "error", "WABA account not found")]
       ELSE LET wabaAccount == CHOOSE a \in found : TRUE IN
            mt' = [mt EXCEPT ![m].pc = "phones", ![m].wabaId = wabaAccount.wabaId,
                             ![m].token = Decrypt(wabaAccount.encryptedToken)]
    /\ UNCHANGED started
    /\ UNCHANGED <<cbVars, rt>>
    /\ UNCHANGED procVars

\* syncPhoneNumbersForAccount lines 1236-1257 and 1275-1284: the phone_numbers
\* call returns (after the retries of axiosWithRetry)
SpPhones(m, response) ==
    /\ Settled
    /\ mt[m].pc = "phones"
    /\ LET phone == PhoneDiscovery(response, mt[m].wabaId) IN
       mt' = [mt EXCEPT ![m] =
                IF response = "failed" THEN OpDone(@, "error", "Failed to sync phone numbers")
                ELSE [@ EXCEPT !.pc = "update", !.phoneId = phone.phoneId,
                               !.displayNumber = phone.displayNumber,
                               !.hasPhoneNumbers = phone.hasPhoneNumbers]]
    /\ UNCHANGED started
    /\ UNCHANGED <<cbVars, rt>>
    /\ UNCHANGED procVars

\* syncPhoneNumbersForAccount lines 1259-1284: the update returns
SpUpdate(m) ==
    /\ Settled
    /\ mt[m].pc = "update"
    /\ mt[m].op = "sync"
    /\ LET found == FindAccountById(wabaAccounts, mt[m].accountId) IN
       /\ wabaAccounts' = (wabaAccounts \ found) \cup
             {[a EXCEPT !.phoneId = mt[m].phoneId, !.displayNumber = mt[m].displayNumber]
                 : a \in found}
       /\ mt' = [mt EXCEPT ![m] = IF found = {}
                                  THEN OpDone(@, "error", "Failed to sync phone numbers")
                                  ELSE OpDone(@, "success", Null)]
    /\ UNCHANGED started
    /\ UNCHANGED <<cbVars, rt>>
    /\ UNCHANGED <<conversations, messages, templates, webhookEvents, jobs, wk,
                   faults, applied, okSnap>>

\* disconnectAccount lines 1290-1293
DisconnectAccount(m, accountId) == StartOp(m, "disconnect", accountId)

\* disconnectAccount lines 1295-1302: findUnique returns; delete is issued
DaFind(m) ==
    /\ Settled
    /\ mt[m].pc = "find"
    /\ mt[m].op = "disconnect"
    /\ mt' = [mt EXCEPT ![m] =
                IF FindAccountById(wabaAccounts, mt[m].accountId) = {}
                THEN OpDone(@, "error", "WABA account not found")
                ELSE [@ EXCEPT !.pc = "delete"]]
    /\ UNCHANGED started
    /\ UNCHANGED <<cbVars, rt>>
    /\ UNCHANGED procVars

\* disconnectAccount lines 1299-1308: the delete returns; the delete of a row
\* that is gone raises. The operation runs while no Conversation, Message or
\* Template row refers to the Account.
DaDelete(m) ==
    /\ Settled
    /\ mt[m].pc = "delete"
    /\ LET found == FindAccountById(wabaAccounts, mt[m].accountId) IN
       /\ wabaAccounts' = wabaAccounts \ found
       /\ mt' = [mt EXCEPT ![m] = IF found = {} THEN OpDone(@, "error", "PrismaError")
                                  ELSE OpDone(@, "success", Null)]
    /\ UNCHANGED started
    /\ UNCHANGED <<cbVars, rt>>
    /\ UNCHANGED <<conversations, messages, templates, webhookEvents, jobs, wk,
                   faults, applied, okSnap>>

\* ------------------------------------------------------- initial states
\* The processor runs against two connected Accounts and one submitted
\* Template; no code has been exchanged by this service instance.
InitAccounts ==
    {AccountRow(1, "W1", "s1", "P1", "+5511", Encrypt("long"), "exp", TRUE),
     AccountRow(2, "W2", "s1", "pending-W2", PlaceholderNumber, Encrypt("short"), Null, FALSE)}

InitTemplates == <<[wabaAccountId |-> 1, name |-> "t1", status |-> "pending", history |-> {}]>>

NoEvent == [processed |-> FALSE, error |-> Null]

StatusKeys == {<<a, m>> : a \in {1, 2}, m \in {"m1", "m2", "m9"}}

InitCb ==
    /\ usedCodes = {}
    /\ redeemed = {}
    /\ hc = [h \in Calls |-> IdleCall]
    /\ calls = 0
    /\ regs = {}
    /\ nextAccountId = 3
    /\ succeeded = {}
    /\ mt = [m \in MaintCalls |-> IdleOp]
    /\ started = 0
    /\ rt = IdleRetry

Init ==
    /\ wabaAccounts = InitAccounts
    /\ conversations = <<>>
    /\ messages = <<>>
    /\ templates = InitTemplates
    /\ webhookEvents = [j \in JobIds |-> NoEvent]
    /\ jobs = [j \in JobIds |-> NoJob]
    /\ wk = [w \in Workers |-> IdleWorker]
    /\ faults = 0
    /\ applied = [k \in StatusKeys |-> <<>>]
    /\ okSnap = <<>>
    /\ InitCb

Next ==
    \/ \E j \in JobIds, d \in Deliveries : Receive(j, d[1], d[2])
    \/ \E w \in Workers, j \in JobIds : Begin(w, j)
    \/ \E w \in Workers : FindAccountStep(w)
    \/ \E w \in Workers : PmFindConv(w)
    \/ \E w \in Workers : PmWriteConv(w)
    \/ \E w \in Workers : PmFindMsg(w)
    \/ \E w \in Workers : PmCreateMsg(w)
    \/ \E w \in Workers : UpdateMessageStatus(w)
    \/ \E w \in Workers : UtFind(w)
    \/ \E w \in Workers : UtUpdate(w)
    \/ \E w \in Workers : MarkProcessed(w)
    \/ \E w \in Workers : Fault(w)
    \/ \E w \in Workers : Catch(w)

Spec == Init /\ [][Next]_vars

\* ------------------------------- two consumers of the processing queue
\* Nothing in process() orders the jobs of one Account: with a second
\* consumer of the queue the awaits of two jobs interleave.
InitConsumers ==
    /\ wabaAccounts = InitAccounts
    /\ conversations = <<>>
    /\ messages = <<>>
    /\ templates = InitTemplates
    /\ webhookEvents = [j \in JobIds |-> NoEvent]
    /\ jobs = [j \in JobIds |-> NoJob]
    /\ wk = [w \in Consumers |-> IdleWorker]
    /\ faults = 0
    /\ applied = [k \in StatusKeys |-> <<>>]
    /\ okSnap = <<>>
    /\ InitCb

NextConsumers ==
    \/ \E j \in JobIds, d \in SameContact : ReceiveAny(j, d[1], d[2])
    \/ \E w \in Consumers, j \in JobIds : Begin(w, j)
    \/ \E w \in Consumers : FindAccountStep(w)
    \/ \E w \in Consumers : PmFindConv(w)
    \/ \E w \in Consumers : PmWriteConv(w)
    \/ \E w \in Consumers : PmFindMsg(w)
    \/ \E w \in Consumers : PmCreateMsg(w)
    \/ \E w \in Consumers : MarkProcessed(w)
    \/ \E w \in Consumers : Catch(w)

SpecConsumers == InitConsumers /\ [][NextConsumers]_vars

\* ------------------------------------ the service: OAuth callbacks
\* No Account is connected and no webhook has been received. The callbacks
\* arrive one after the other.
InitCallback ==
    /\ wabaAccounts = {}
    /\ conversations = <<>>
    /\ messages = <<>>
    /\ templates = <<>>
    /\ webhookEvents = [j \in JobIds |-> NoEvent]
    /\ jobs = [j \in JobIds |-> NoJob]
    /\ wk = [w \in Workers |-> IdleWorker]
    /\ faults = 0
    /\ applied = [k \in StatusKeys |-> <<>>]
    /\ okSnap = <<>>
    /\ usedCodes = {}
    /\ redeemed = {}
    /\ hc = [h \in Calls |-> IdleCall]
    /\ calls = 0
    /\ regs = {}
    /\ nextAccountId = 1
    /\ succeeded = {}
    /\ mt = [m \in MaintCalls |-> IdleOp]
    /\ started = 0
    /\ rt = IdleRetry

NextCallback ==
    \/ \E h \in {"h1"} : Return(h)
    \/ \E h \in {"h1"}, code \in Codes, state \in CbStates : Invoke(h, code, state)
    \/ \E h \in {"h1"} : FindShop(h)
    \/ \E h \in {"h1"} : ExchangeOk(h)
    \/ \E h \in {"h1"} : ExchangeFails(h)
    \/ \E h \in {"h1"}, token \in BOOLEAN, expiresIn \in BOOLEAN : LongLived(h, token, expiresIn)
    \/ \E h \in {"h1"}, wabaIds \in {<<>>, <<"W1">>}, bizIds \in {<<>>, <<"B1">>} :
            DebugToken(h, wabaIds, bizIds)
    \/ \E h \in {"h1"}, found \in BOOLEAN, business \in BOOLEAN : Method1(h, found, business)
    \/ \E h \in {"h1"}, list \in {<<>>, <<"W2">>} : Method2(h, list)
    \/ \E h \in {"h1"}, list \in {<<>>, <<"W1">>} : Method3List(h, list)
    \/ \E h \in {"h1"}, err \in Method3Errors : Method3Fails(h, err)
    \/ \E h \in {"h1"} : Details(h)
    \/ \E h \in {"h1"}, response \in PhoneResponses : Phones(h, response)
    \/ \E h \in {"h1"} : UpsertFind(h)
    \/ \E h \in {"h1"} : UpsertWrite(h)
    \/ \E h \in {"h1"} : ShopName(h)
    \/ \E r \in regs, ok \in BOOLEAN : RegisterPost(r, ok)
    \/ \E r \in regs : RegisterUpdate(r)

SpecCallback == InitCallback /\ [][NextCallback]_vars

\* ------------------------- the service: two overlapping OAuth callbacks
\* Both invocation slots run; the provider's answers are drawn from the
\* cases that decide the shared state (used codes, Accounts): valid states,
\* no business scope, Method 3 failing with error code 100.
NextConcurrent ==
    \/ \E h \in Calls : Return(h)
    \/ \E h \in Calls, code \in Codes, state \in {<<"s1", "new">>, <<"s1", "existing">>} :
            Invoke(h, code, state)
    \/ \E h \in Calls : FindShop(h)
    \/ \E h \in Calls : ExchangeOk(h)
    \/ \E h \in Calls : ExchangeFails(h)
    \/ \E h \in Calls, token \in BOOLEAN : LongLived(h, token, token)
    \/ \E h \in Calls, wabaIds \in {<<>>, <<"W1">>} : DebugToken(h, wabaIds, <<>>)
    \/ \E h \in Calls, found \in BOOLEAN : Method1(h, found, FALSE)
    \/ \E h \in Calls, list \in {<<>>, <<"W1">>} : Method3List(h, list)
    \/ \E h \in Calls : Method3Fails(h, <<100, FALSE>>)
    \/ \E h \in Calls : Details(h)
    \/ \E h \in Calls, response \in {"list", "empty"} : Phones(h, response)
    \/ \E h \in Calls : UpsertFind(h)
    \/ \E h \in Calls : UpsertWrite(h)
    \/ \E h \in Calls : ShopName(h)
    \/ \E r \in regs, ok \in BOOLEAN : RegisterPost(r, ok)
    \/ \E r \in regs : RegisterUpdate(r)

SpecConcurrent == InitCallback /\ [][NextConcurrent]_vars

\* ------------------ the service: re-connecting from one or several shops
\* Both invocation slots run, for two shops; every negotiation resolves an
\* identifier through Method 1, so that each run reaches the upsert.
NextReconnect ==
    \/ \E h \in Calls : Return(h)
    \/ \E h \in Calls, code \in Codes, state \in {<<"s1", "new">>, <<"s2", "existing">>} :
            Invoke(h, code, state)
    \/ \E h \in Calls : FindShop(h)
    \/ \E h \in Calls : ExchangeOk(h)
    \/ \E h \in Calls, token \in BOOLEAN : LongLived(h, token, token)
    \/ \E h \in Calls, wabaIds \in {<<"W1">>, <<"W2">>} : DebugToken(h, wabaIds, <<"B1">>)
    \/ \E h \in Calls : Method1(h, TRUE, TRUE)
    \/ \E h \in Calls, response \in {"list", "empty"} : Phones(h, response)
    \/ \E h \in Calls : UpsertFind(h)
    \/ \E h \in Calls : UpsertWrite(h)
    \/ \E h \in Calls : ShopName(h)
    \/ \E r \in regs, ok \in BOOLEAN : RegisterPost(r, ok)
    \/ \E r \in regs : RegisterUpdate(r)

SpecReconnect == InitCallback /\ [][NextReconnect]_vars

\* ------------------------- the service: operations on connected Accounts
\* Two Accounts are connected. The account operations overlap with each other
\* and with one handleCallback invocation that re-connects an Account (its
\* identifier resolved by Method 1).
InitMaintenance ==
    /\ wabaAccounts = InitAccounts
    /\ conversations = <<>>
    /\ messages = <<>>
    /\ templates = <<>>
    /\ webhookEvents = [j \in JobIds |-> NoEvent]
    /\ jobs = [j \in JobIds |-> NoJob]
    /\ wk = [w \in Workers |-> IdleWorker]
    /\ faults = 0
    /\ applied = [k \in StatusKeys |-> <<>>]
    /\ okSnap = <<>>
    /\ InitCb

NextMaintenance ==
    \/ \E m \in MaintCalls : ReturnOp(m)
    \/ \E m \in MaintCalls, accountId \in AccountIds : RegisterWebhookForAccount(m, accountId)
    \/ \E m \in MaintCalls : RwFind(m)
    \/ \E m \in MaintCalls, accountId \in AccountIds : RefreshTokenForAccount(m, accountId)
    \/ \E m \in MaintCalls : RfFind(m)
    \/ \E m \in MaintCalls, response \in RefreshResponses : RfExchange(m, response)
    \/ \E m \in MaintCalls : RfUpdate(m)
    \/ \E m \in MaintCalls, accountId \in AccountIds : SyncPhoneNumbersForAccount(m, accountId)
    \/ \E m \in MaintCalls : SpFind(m)
    \/ \E m \in MaintCalls, response \in PhoneResponses : SpPhones(m, response)
    \/ \E m \in MaintCalls : SpUpdate(m)
    \/ \E m \in MaintCalls, accountId \in AccountIds : DisconnectAccount(m, accountId)
    \/ \E m \in MaintCalls : DaFind(m)
    \/ \E m \in MaintCalls : DaDelete(m)
    \/ \E h \in {"h1"} : Return(h)
    \/ \E h \in {"h1"} : Invoke(h, "c1", <<"s1", "existing">>)
    \/ \E h \in {"h1"} : FindShop(h)
    \/ \E h \in {"h1"} : ExchangeOk(h)
    \/ \E h \in {"h1"}, token \in BOOLEAN : LongLived(h, token, token)
    \/ \E h \in {"h1"} : DebugToken(h, <<"W1">>, <<"B1">>)
    \/ \E h \in {"h1"} : Method1(h, TRUE, TRUE)
    \/ \E h \in {"h1"}, response \in {"list", "empty"} : Phones(h, response)
    \/ \E h \in {"h1"} : UpsertFind(h)
    \/ \E h \in {"h1"} : UpsertWrite(h)
    \/ \E h \in {"h1"} : ShopName(h)
    \/ \E r \in regs, ok \in BOOLEAN : RegisterPost(r, ok)
    \/ \E r \in regs : RegisterUpdate(r)

SpecMaintenance == InitMaintenance /\ [][NextMaintenance]_vars

\* ----------------------------- the service: webhook registrations
\* Registrations of the two connected Accounts by registerWebhookForAccount
\* and by a handleCallback that connects W1, next to disconnectAccount.
RegisterIds == {1, 2}

NextRegister ==
    \/ \E m \in MaintCalls : ReturnOp(m)
    \/ \E m \in MaintCalls, accountId \in RegisterIds : RegisterWebhookForAccount(m, accountId)
    \/ \E m \in MaintCalls : RwFind(m)
    \/ \E m \in MaintCalls, accountId \in RegisterIds : DisconnectAccount(m, accountId)
    \/ \E m \in MaintCalls : DaFind(m)
    \/ \E m \in MaintCalls : DaDelete(m)
    \/ \E h \in {"h1"} : Return(h)
    \/ \E h \in {"h1"} : Invoke(h, "c1", <<"s1", "existing">>)
    \/ \E h \in {"h1"} : FindShop(h)
    \/ \E h \in {"h1"} : ExchangeOk(h)
    \/ \E h \in {"h1"} : LongLived(h, TRUE, TRUE)
    \/ \E h \in {"h1"} : DebugToken(h, <<"W1">>, <<"B1">>)
    \/ \E h \in {"h1"} : Method1(h, TRUE, TRUE)
    \/ \E h \in {"h1"} : Phones(h, "list")
    \/ \E h \in {"h1"} : UpsertFind(h)
    \/ \E h \in {"h1"} : UpsertWrite(h)
    \/ \E h \in {"h1"} : ShopName(h)
    \/ \E r \in regs, ok \in BOOLEAN : RegisterPost(r, ok)
    \/ \E r \in regs : RegisterUpdate(r)

SpecRegister == InitMaintenance /\ [][NextRegister]_vars

\* the update that registerWebhook awaits returns, and a finished operation
\* or invocation returns to its caller
SpecRegisterFair ==
    /\ SpecRegister
    /\ WF_vars(\E r \in regs : RegisterUpdate(r))
    /\ WF_vars(\E m \in MaintCalls : ReturnOp(m))
    /\ WF_vars(\E h \in {"h1"} : Return(h))

\* ------------------------------------------- the service: axiosWithRetry
\* One call of axiosWithRetry, with the attempt counts up to MaxRetries and
\* the delays of the call sites (1000 by default, 2000 for the code exchange).
NextRetry ==
    \/ \E maxRetries \in 1..MaxRetries, retryDelay \in {1000, 2000} :
            AxiosWithRetry(maxRetries, retryDelay)
    \/ RequestResolves
    \/ \E error \in RequestErrors : RequestRejects(error)
    \/ RetryAfterDelay

SpecRetry == InitCallback /\ [][NextRetry]_vars

\* every request ends (each carries a timeout) and every delay elapses
SpecRetryFair ==
    /\ SpecRetry
    /\ WF_vars(RequestResolves \/ \E error \in RequestErrors : RequestRejects(error))
    /\ WF_vars(RetryAfterDelay)

\* ================================================================ claims
Idle == \A w \in Workers : wk[w].pc = "idle"
MessageKey(row) == <<row.wabaAccountId, row.messageId>>

\* C1: for an Account at most one Message row exists per provider message
\* identifier, and no step changes the body or direction of a recorded row or
\* inserts a row for an identifier that is already recorded.
C1_OneRowPerIdentifier ==
    \A a, b \in DOMAIN messages : MessageKey(messages[a]) = MessageKey(messages[b]) => a = b
C1_FirstWriterWins ==
    /\ Len(messages') >= Len(messages)
    /\ \A k \in DOMAIN messages :
          /\ messages'[k].messageId = messages[k].messageId
          /\ messages'[k].body = messages[k].body
          /\ messages'[k].direction = messages[k].direction
    /\ \A k \in DOMAIN messages' \ DOMAIN messages :
          \A b \in DOMAIN messages : MessageKey(messages[b]) # MessageKey(messages'[k])
C1_IdempotentCreate == []C1_OneRowPerIdentifier /\ [][C1_FirstWriterWins]_vars
\* a second job carrying a recorded identifier with another content has run
\* to the message lookup and the first content is still the stored one
C1_Witness ==
    \E w \in Workers :
        /\ wk[w].pc \in {"pm_findMsg", "mark"}
        /\ CurJob(w).payload = "Msg1b"
        /\ \E k \in DOMAIN messages : messages[k].messageId = "m1" /\ messages[k].body = "hello"

\* C2: processing a message whose identifier is already recorded does not
\* increase the unread counter, and between jobs the counter of a conversation
\* equals the number of distinct inbound identifiers recorded for it (stated
\* for the runs in which no persistence call has failed).
InboundIds(conversationId) ==
    {messages[k].messageId : k \in {x \in DOMAIN messages :
        messages[x].conversationId = conversationId /\ messages[x].direction = "inbound"}}
C2_CounterIsDistinctInbound ==
    (Idle /\ faults = 0) =>
        \A c \in DOMAIN conversations :
            conversations[c].unreadCount = Cardinality(InboundIds(c))
C2_DuplicateDoesNotIncrement ==
    \A w \in Workers :
        (/\ wk[w].pc = "pm_writeConv"
         /\ wk'[w].pc = "pm_findMsg"
         /\ \E k \in DOMAIN messages : /\ messages[k].wabaAccountId = wk[w].acct
                                        /\ messages[k].messageId = CurOp(w).arg.id)
        => \A c \in DOMAIN conversations :
               conversations'[c].unreadCount = conversations[c].unreadCount
C2_UnreadGatedByCreate ==
    []C2_CounterIsDistinctInbound /\ [][C2_DuplicateDoesNotIncrement]_vars

\* C3: once a payload has been processed successfully for an Account,
\* processing the same payload again (duplicates, failed attempts and retries
\* included) leaves the Conversation, Message and Template state that the
\* successful run left.
C3_ReprocessingConverges ==
    (Idle /\ okSnap # <<>>) =>
        /\ conversations = okSnap[1].conversations
        /\ messages = okSnap[1].messages
        /\ templates = okSnap[1].templates

\* C4: the stored delivery status of a Message equals the status carried by
\* the last status event applied to it.
C4_StatusIsLastApplied ==
    \A k \in DOMAIN messages :
        LET hist == applied[MessageKey(messages[k])] IN
        hist # <<>> => messages[k].status = hist[Len(hist)]
\* two status events with different statuses have been applied to a Message
C4_Witness ==
    \E k \in DOMAIN messages :
        LET hist == applied[MessageKey(messages[k])] IN
        /\ Len(hist) >= 2
        /\ hist[Len(hist) - 1] # hist[Len(hist)]
        /\ messages[k].status = hist[Len(hist)]

\* C5: a status event matching no Message of the Account creates no row and
\* raises no error: the job goes on with its next item, and a job made of such
\* an event alone marks its WebhookEvent processed with no error.
C5_StatusStep ==
    \A w \in Workers :
        (/\ wk[w].pc = "ums"
         /\ StatusMatches(messages, wk[w].acct, CurOp(w).arg) = {}
         /\ faults' = faults)
        => /\ messages' = messages
           /\ webhookEvents' = webhookEvents
           /\ wk'[w].err = Null
           /\ wk'[w].pc = OpPc(JobOps(CurJob(w)), wk[w].i + 1)
C5_JobEnd ==
    \A w \in Workers :
        (/\ wk[w].pc = "mark"
         /\ CurJob(w).payload = "StUnknown"
         /\ CurJob(w).attemptsMade = 0
         /\ faults' = faults)
        => webhookEvents'[CurJob(w).eventId] = [processed |-> TRUE, error |-> Null]
C5_UnknownStatusIsNoOp == [][C5_StatusStep /\ C5_JobEnd]_vars
\* the job of the unknown status event has passed the update and no row exists
C5_Witness ==
    \E w \in Workers :
        /\ wk[w].pc = "mark"
        /\ CurJob(w).payload = "StUnknown"
        /\ \A k \in DOMAIN messages : messages[k].messageId # "m9"

\* C6: an attempt with a code that an earlier, finished attempt has exchanged
\* (and a state naming an existing shop) fails with the code-already-used
\* error and issues no provider call.
C6_SecondAttemptRejected ==
    \A h \in Calls :
        (hc[h].pc = "done" /\ hc[h].replay /\ ShopIdOf(hc[h].state) \in Shops)
        => /\ hc[h].result = "error"
           /\ hc[h].error = "CodeAlreadyUsed"
           /\ ~hc[h].issued

\* C7: of two overlapping invocations carrying the same code at most one has
\* issued the code-for-token exchange call.
C7_AtMostOneExchange ==
    \A a, b \in Calls :
        (a # b /\ Active(a) /\ Active(b) /\ hc[a].code = hc[b].code)
        => ~(hc[a].issued /\ hc[b].issued)

\* C8 as stated: whenever handleCallback raises before the Account is
\* persisted (before or after the exchange completed), the code is not in the
\* used set afterwards.
BeforePersistPcs == {"idle", "findShop", "exchange", "longLived", "debug", "method1",
                     "method2", "method3", "details", "phones", "upsertFind", "upsertWrite"}
RaisesFrom(h, pcs) ==
    /\ hc[h].pc \in pcs
    /\ hc'[h].pc = "done"
    /\ hc'[h].result = "error"
C8_Compensation ==
    [][\A h \in Calls : RaisesFrom(h, BeforePersistPcs) => hc'[h].code \notin usedCodes']_vars

\* C8 amended: whenever handleCallback, having passed the state validation
\* and the used-code check, raises before the Account is persisted (the
\* exchange failed, or a later step failed after the exchange succeeded), the
\* code is not in the used set afterwards.
C8_CompensationInsideTry ==
    [][\A h \in Calls : RaisesFrom(h, BeforePersistPcs \ {"idle", "findShop"})
                            => hc'[h].code \notin usedCodes']_vars
\* an invocation has raised after its exchange had recorded the code, and the
\* code is out of the used set again
C8_Witness ==
    \E h \in Calls :
        /\ hc[h].pc = "done"
        /\ hc[h].added
        /\ hc[h].error = "NoWabaFound"
        /\ hc[h].code \notin usedCodes

\* C9: when no method resolves an identifier and the mode is not `existing`,
\* handleCallback returns the needs-further-signup result.
C9_NewModeNeedsSignup ==
    \A h \in Calls :
        (hc[h].pc = "done" /\ hc[h].noWaba /\ ConnectionTypeOf(hc[h].state) # "existing")
        => hc[h].result = "needsEmbeddedSignup"

\* C10: when no method resolves an identifier and the mode is `existing`,
\* handleCallback fails, with an error telling that the account is not
\* directly accessible.
C10_ExistingModeFails ==
    \A h \in Calls :
        (hc[h].pc = "done" /\ hc[h].noWaba /\ ConnectionTypeOf(hc[h].state) = "existing")
        => /\ hc[h].result = "error"
           /\ hc[h].error \in NotDirectlyAccessibleErrors
\* Method 3 has failed with error code 100 in mode `existing`
C10_Witness ==
    \E h \in Calls :
        /\ hc[h].pc = "done"
        /\ hc[h].noWaba
        /\ ConnectionTypeOf(hc[h].state) = "existing"
        /\ hc[h].error = "ExistingWabaNotAccessible"

\* C11: an invocation whose phone discovery gave no phone identity (an empty
\* list or a failed call) ends with the success result: the Account of the
\* resolved identifier carries the placeholder as displayNumber and the
\* result carries needsPhoneNumber = true.
C11_NoPhoneStillSucceeds ==
    \A h \in Calls :
        (hc[h].pc = "done" /\ hc[h].phones \in {"empty", "failed"})
        => /\ hc[h].result = "success"
           /\ NeedsPhoneNumber(hc[h])
           /\ \E a \in wabaAccounts : /\ a.wabaId = hc[h].wabaId
                                       /\ a.displayNumber = PlaceholderNumber
\* the phone_numbers call failed and the invocation has returned
C11_Witness ==
    \E h \in Calls :
        /\ hc[h].pc = "done"
        /\ hc[h].phones = "failed"
        /\ hc[h].result = "success"

\* C12: there is at most one Account per provider account identifier, and a
\* handleCallback run whose upsert finds the identifier updates that Account
\* in place (credential, expiry, shop linkage, phone fields): the row keeps
\* its id and no row is added, whatever shop the run is for and however the
\* runs interleave.
C12_OnePerIdentifier ==
    \A a, b \in wabaAccounts : a.wabaId = b.wabaId => a = b
C12_UpdatedInPlace ==
    \A h \in Calls :
        (/\ hc[h].pc = "upsertWrite"
         /\ hc'[h].pc = "shopName"
         /\ FindAccount(wabaAccounts, hc[h].wabaId) # {})
        => /\ Cardinality(wabaAccounts') = Cardinality(wabaAccounts)
           /\ \A a \in FindAccount(wabaAccounts, hc[h].wabaId) :
                 \E b \in wabaAccounts' :
                    /\ b.id = a.id
                    /\ b.wabaId = a.wabaId
                    /\ b.shopId = hc[h].shopId
                    /\ b.phoneId = hc[h].phoneId
                    /\ b.displayNumber = hc[h].displayNumber
                    /\ b.encryptedToken = Encrypt(hc[h].accessToken)
                    /\ b.tokenExpiresAt = hc[h].tokenExpiresAt
C12_OneAccountPerIdentifier == []C12_OnePerIdentifier /\ [][C12_UpdatedInPlace]_vars
\* a run for shop s2 has updated the Account that a run for shop s1 created
C12_Witness ==
    \E h \in Calls :
        /\ hc[h].pc = "shopName"
        /\ hc[h].existingWaba
        /\ hc[h].shopId = "s2"
        /\ \E a \in wabaAccounts : a.wabaId = hc[h].wabaId /\ a.shopId = "s2" /\ a.id = 1
        /\ Cardinality(wabaAccounts) = 1

\* C13: the credential field of every Account is a ciphertext produced by
\* the encryption collaborator, and the only steps that write a credential
\* are the upsert of handleCallback and the update of refreshTokenForAccount.
Ciphertexts == {Encrypt(t) : t \in Tokens}
Credentials(accts) == {<<a.id, a.encryptedToken>> : a \in accts}
C13_CiphertextAtRest ==
    \A a \in wabaAccounts : a.encryptedToken \in Ciphertexts
C13_CredentialWriters ==
    ~(Credentials(wabaAccounts') \subseteq Credentials(wabaAccounts))
    => \/ \E h \in Calls : hc[h].pc = "upsertWrite" /\ hc'[h].pc = "shopName"
       \/ \E m \in MaintCalls : /\ mt[m].op = "refresh"
                                  /\ mt[m].pc = "update"
                                  /\ mt'[m].pc = "done"
C13_CredentialIsCiphertext == []C13_CiphertextAtRest /\ [][C13_CredentialWriters]_vars
\* refreshTokenForAccount has stored the refreshed credential of an Account
\* that handleCallback had re-connected
C13_Witness ==
    \E m \in MaintCalls :
        /\ mt[m].pc = "done"
        /\ mt[m].op = "refresh"
        /\ mt[m].result = "success"
        /\ calls > 0
        /\ \E a \in wabaAccounts : /\ a.id = mt[m].accountId
                                    /\ a.encryptedToken = Encrypt("fresh")
                                    /\ a.shopId = "s1"
                                    /\ a.phoneId = PendingPhoneId(a.wabaId)

\* C14: a registration started fire-and-forget never fails the connection:
\* a step that ends a registration run (the subscription call failed, or the
\* flag was written) changes no handleCallback invocation and removes no
\* Account; an invocation that has passed the upsert returns the success
\* result, and when it returns its Account is persisted, whether the
\* registration has succeeded, failed, or is still running.
C14_RegistrationStep ==
    (\E r \in regs : r.caller = Null /\ r \notin regs')
    => /\ hc' = hc
       /\ usedCodes' = usedCodes
       /\ {a.wabaId : a \in wabaAccounts'} = {a.wabaId : a \in wabaAccounts}
C14_AfterUpsert ==
    \A h \in Calls : (hc[h].pc = "shopName" /\ hc'[h].pc # "shopName")
                        => hc'[h].pc = "done" /\ hc'[h].result = "success"
C14_Persisted ==
    \A h \in Calls : (hc[h].pc = "done" /\ hc[h].result = "success")
                        => FindAccount(wabaAccounts, hc[h].wabaId) # {}
C14_RegistrationNeverFailsConnection ==
    []C14_Persisted /\ [][C14_RegistrationStep /\ C14_AfterUpsert]_vars
\* every registration of the Account has failed (none is running and the
\* flag is unset) and the invocation has returned the success result
C14_Witness ==
    \E h \in Calls :
        /\ hc[h].pc = "done"
        /\ hc[h].result = "success"
        /\ \A r \in regs : r.wabaId # hc[h].wabaId
        /\ \E a \in wabaAccounts : a.wabaId = hc[h].wabaId /\ ~a.webhookVerified

\* C15: a registerWebhookForAccount call during which the provider's
\* subscription call failed ends with an error raised to its caller.
C15_SyncFailurePropagates ==
    \A m \in MaintCalls :
        (mt[m].pc = "done" /\ mt[m].op = "register" /\ mt[m].regFailed)
        => mt[m].result = "error"

\* C16: axiosWithRetry invokes the thunk again only after a transient
\* failure (connection reset, timeout, refused, DNS not found, HTTP 5xx): a
\* failure of any other kind ends the call with that error, and when it is
\* the first failure the thunk has been invoked exactly once.
Transient(error) ==
    \/ error.code \in {"ECONNRESET", "ETIMEDOUT", "ECONNREFUSED", "ENOTFOUND"}
    \/ error.timeoutText
    \/ error.status \in 500..599
C16_RetriesOnlyTransient ==
    \A k \in DOMAIN rt.outcomes :
        (rt.outcomes[k] # Response /\ ~Transient(rt.outcomes[k]))
        => /\ k = Len(rt.outcomes)
           /\ rt.invoked = k
           /\ rt.pc = "done"
           /\ rt.result = "error"
           /\ rt.answer = rt.outcomes[k]
\* the first request met an HTTP 400 and the call has ended
C16_Witness ==
    /\ rt.pc = "done"
    /\ rt.maxRetries = 3
    /\ rt.invoked = 1
    /\ rt.result = "error"
    /\ rt.answer = Outcome("ERR_BAD_REQUEST", 400, FALSE)

\* C17: axiosWithRetry invokes the thunk at most maxRetries times and ends:
\* with the response of the first invocation that resolves, no invocation
\* following it, or, after maxRetries transient failures, with the error of
\* the last invocation.
C17_Bounded ==
    /\ rt.invoked <= rt.maxRetries
    /\ \A k \in DOMAIN rt.outcomes :
          rt.outcomes[k] = Response
          => /\ k = Len(rt.outcomes)
             /\ rt.invoked = k
             /\ rt.pc = "done"
             /\ rt.result = "response"
             /\ rt.answer = rt.outcomes[k]
    /\ (/\ rt.pc # "idle"
        /\ Len(rt.outcomes) = rt.maxRetries
        /\ \A k \in DOMAIN rt.outcomes : rt.outcomes[k] # Response)
       => /\ rt.pc = "done"
          /\ rt.result = "error"
          /\ rt.answer = rt.outcomes[rt.maxRetries]
C17_Terminates == []C17_Bounded /\ ((rt.pc # "idle") ~> (rt.pc = "done"))
\* three invocations failed transiently with different errors and the call
\* has ended with the third error
C17_Witness ==
    /\ rt.pc = "done"
    /\ rt.maxRetries = 3
    /\ rt.invoked = 3
    /\ rt.result = "error"
    /\ rt.outcomes[1] # rt.outcomes[3]
    /\ rt.outcomes[2] # rt.outcomes[3]
    /\ rt.answer = rt.outcomes[3]

\* the job has been handed back to the queue by an exception of process()
Reraised(j) == jobs'[j].st \in {"waiting", "failed"}
\* process() has returned normally
Returned(j) == jobs'[j].st = "completed"
\* the catch block runs for the job of worker w
Catches(w) == wk[w].pc = "catch" /\ wk'[w].pc = "idle"

\* C18: when the Account lookup of a job finds no Account, the WebhookEvent
\* is marked processed with the error text and process() returns without
\* re-raising, whatever the attempt count of the job.
C18_MissingAccountIsFatal ==
    [][\A w \in Workers :
          (Catches(w) /\ wk[w].err = "WABA account not found")
          => /\ webhookEvents'[CurJob(w).eventId] =
                   [processed |-> TRUE, error |-> "WABA account not found"]
             /\ Returned(wk[w].job)]_vars

\* C19: a failed attempt marks the WebhookEvent processed with the error;
\* the first and the second failed attempt of a job re-raise, and from the
\* third failed attempt on process() returns normally, so that the job is
\* not handed back to the queue.
C19_RetryCeiling ==
    [][\A w \in Workers :
          Catches(w)
          => LET attempt == CurJob(w).attemptsMade + 1 IN
             /\ webhookEvents'[CurJob(w).eventId] = [processed |-> TRUE, error |-> wk[w].err]
             /\ attempt < maxAttempts => Reraised(wk[w].job)
             /\ attempt >= maxAttempts => Returned(wk[w].job)]_vars

\* C20: when the third attempt of a job succeeds after two failed attempts,
\* its WebhookEvent is left processed with no error recorded.
C20_ErrorClearedOnSuccess ==
    [][\A w \in Workers :
          (wk[w].pc = "mark" /\ wk'[w].pc = "idle" /\ CurJob(w).attemptsMade = 2)
          => webhookEvents'[CurJob(w).eventId] = [processed |-> TRUE, error |-> Null]]_vars

\* C21: once a WebhookEvent is processed (with or without error) no step of
\* the Processor writes that WebhookEvent again and no run of process()
\* starts for its job again.
C21_ProcessedIsTerminal ==
    [][\A j \in JobIds :
          webhookEvents[j].processed
          => /\ webhookEvents'[j] = webhookEvents[j]
             /\ ~(jobs[j].st = "waiting" /\ jobs'[j].st = "active")]_vars

\* C22: whenever process() finishes handling a job, returning normally or
\* re-raising, the WebhookEvent of the job is processed.
C22_FinishedMeansProcessed ==
    [][\A j \in JobIds :
          (/\ jobs[j].st \in {"waiting", "active"}
           /\ jobs'[j].st \in {"waiting", "completed", "failed"}
           /\ jobs'[j] # jobs[j])
          => webhookEvents'[jobs[j].eventId].processed]_vars

\* the update of updateTemplateStatus is applied by worker w: the event has
\* a kind and the write is not rejected
AppliesTemplateEvent(w) ==
    /\ wk[w].pc = "ut_update"
    /\ wk'[w] # wk[w]
    /\ CurOp(w).arg.event # Null
    /\ faults' = faults

\* C23: a template-status event applied to an existing Template sets the
\* status to approved for kind APPROVED, to rejected for kind REJECTED, and
\* leaves the status as it was for any other kind.
C23_StatusMapping ==
    [][\A w \in Workers :
          AppliesTemplateEvent(w)
          => LET t == wk[w].tmpl
                 kind == CurOp(w).arg.event IN
             /\ kind = "APPROVED" => templates'[t].status = "approved"
             /\ kind = "REJECTED" => templates'[t].status = "rejected"
             /\ kind \notin {"APPROVED", "REJECTED"}
                   => templates'[t].status = templates[t].status]_vars
\* a PAUSED event has been applied to a rejected Template, which is still
\* rejected
C23_Witness ==
    \E t \in DOMAIN templates :
        /\ templates[t].status = "rejected"
        /\ <<"paused", "ts">> \in templates[t].history
        /\ <<"statusUpdate", "PAUSED">> \in templates[t].history

\* the entries of a history that hold a raw event
RawEntries(history) == {e \in history : e[1] = "statusUpdate"}

\* C24: each template-status event applied to an existing Template adds one
\* entry holding the raw event to the history of the Template and leaves
\* every entry recorded before in place.
C24_HistoryAppendOnly ==
    [][\A w \in Workers :
          AppliesTemplateEvent(w)
          => LET t == wk[w].tmpl IN
             /\ templates[t].history \subseteq templates'[t].history
             /\ Cardinality(RawEntries(templates'[t].history))
                   = Cardinality(RawEntries(templates[t].history)) + 1]_vars

\* C25: no step of the Processor adds or removes a Template or changes the
\* Account or name of one, and a template-status event that carries no name
\* or names no Template of the job's Account is skipped: nothing is written,
\* no error is raised and the job goes on with its next item.
C25_SameTemplates ==
    /\ DOMAIN templates' = DOMAIN templates
    /\ \A t \in DOMAIN templates :
          /\ templates'[t].wabaAccountId = templates[t].wabaAccountId
          /\ templates'[t].name = templates[t].name
C25_SkipsUnknown ==
    \A w \in Workers :
        (/\ wk[w].pc = "ut_find"
         /\ wk'[w] # wk[w]
         /\ faults' = faults
         /\ \/ CurOp(w).arg.name = Null
            \/ \A t \in DOMAIN templates :
                  ~(/\ templates[t].wabaAccountId = wk[w].acct
                    /\ templates[t].name = CurOp(w).arg.name))
        => /\ templates' = templates
           /\ webhookEvents' = webhookEvents
           /\ wk'[w].i = wk[w].i + 1
           /\ wk'[w].pc = OpPc(JobOps(CurJob(w)), wk[w].i + 1)
           /\ wk'[w].err = Null
C25_NeverCreatesTemplates == [][C25_SameTemplates /\ C25_SkipsUnknown]_vars
\* the job with an event for the unknown template t9 and an event without
\* a name has gone through all its events, and t1 is still the only Template
C25_Witness ==
    \E w \in Workers :
        /\ wk[w].pc = "mark"
        /\ CurJob(w).payload = "TplArray"
        /\ Len(templates) = 1
        /\ templates[1].name = "t1"

\* C26: at most one Conversation exists for an Account and a contact number,
\* whatever the order in which the steps of two jobs are taken.
C26_OneConversationPerContact ==
    \A a, b \in DOMAIN conversations :
        (/\ conversations[a].wabaAccountId = conversations[b].wabaAccountId
         /\ conversations[a].contactNumber = conversations[b].contactNumber)
        => a = b

\* C27: the update of refreshTokenForAccount replaces a credential stored by
\* a connect only when the refreshed token was derived from that credential:
\* a credential that handleCallback stored after the refresh read the Account
\* is not overwritten.
C27_RefreshKeepsNewerCredential ==
    [][\A m \in MaintCalls :
          (/\ mt[m].op = "refresh"
           /\ mt[m].pc = "update"
           /\ mt'[m].result = "success")
          => \A a \in FindAccountById(wabaAccounts, mt[m].accountId) :
                Decrypt(a.encryptedToken) # "fresh"
                => Decrypt(a.encryptedToken) = mt[m].currentToken]_vars

\* C28: the de-duplication lookup of processMessage does not cross Accounts:
\* when no Message of the job's Account has the provider message identifier
\* of the inbound message, the lookup finds nothing and the Message is
\* created, also when another Account has a Message with that identifier.
C28_UniquenessIsPerAccount ==
    [][\A w \in Workers :
          (/\ wk[w].pc = "pm_findMsg"
           /\ wk'[w] # wk[w]
           /\ faults' = faults
           /\ \A k \in DOMAIN messages :
                 ~(/\ messages[k].wabaAccountId = wk[w].acct
                   /\ messages[k].messageId = CurOp(w).arg.id))
          => wk'[w].pc = "pm_createMsg"]_vars

\* where handleCallback is while a call that follows the exchange is pending
AfterExchangePcs == {"longLived", "debug", "method1", "method2", "method3", "details",
                     "phones", "upsertFind", "upsertWrite", "shopName"}

\* C29: no call that follows the code exchange (long-lived exchange, scope
\* introspection, account and phone discovery, the persistence calls) is
\* issued by handleCallback while its code is absent from the used set.
C29_UsedDuringLaterSteps ==
    [][\A h \in Calls :
          (hc'[h].pc \in AfterExchangePcs /\ hc'[h].pc # hc[h].pc)
          => hc'[h].code \in usedCodes']_vars

\* the place of a discovery method in the order (a), (b), (c); 0 for a
\* position that is not the call of a discovery method
MethodRank(pc) ==
    CASE pc = "method1" -> 1
      [] pc = "method2" -> 2
      [] pc = "method3" -> 3
      [] OTHER -> 0
\* h goes from one call of handleCallback to the next
DiscoveryStep(h) ==
    /\ (MethodRank(hc'[h].pc) > 0 /\ hc'[h].pc # hc[h].pc)
       => /\ hc[h].pc \in {"debug", "method1", "method2"}
          /\ MethodRank(hc'[h].pc) > MethodRank(hc[h].pc)
          /\ hc'[h].wabaId = Null
          /\ hc'[h].pc = IF MethodRank(hc[h].pc) < 1 /\ Len(hc'[h].wabaIdsFromToken) > 0
                         THEN "method1"
                         ELSE IF MethodRank(hc[h].pc) < 2 /\ Len(hc'[h].businessIds) > 0
                         THEN "method2"
                         ELSE "method3"
    /\ (MethodRank(hc[h].pc) > 0 /\ hc'[h].wabaId # Null)
       => hc'[h].pc \in {"details", "phones"}
    /\ (hc[h].wabaId = Null /\ hc'[h].wabaId # Null)
       => MethodRank(hc[h].pc) > 0
    /\ (hc[h].wabaId # Null /\ hc[h].pc \in AfterExchangePcs /\ hc'[h].pc \in AfterExchangePcs)
       => hc'[h].wabaId = hc[h].wabaId
\* C30: discovery calls Method 1 (probe of the identifier of the token
\* scopes), Method 2 (accounts of the parent business) and Method 3 (accounts
\* of the identity) in this order; a method is called only while no
\* identifier is resolved, the first identifier a method yields ends the
\* discovery and stays the resolved identifier.
C30_DiscoveryOrder ==
    /\ [](\A h \in Calls : MethodRank(hc[h].pc) > 0 => hc[h].wabaId = Null)
    /\ [][\A h \in Calls : DiscoveryStep(h)]_vars
\* Method 3 is being called after the probe of the identifier of the token
\* scopes and the listing of the parent business both yielded nothing
C30_Witness ==
    \E h \in Calls :
        /\ hc[h].pc = "method3"
        /\ Len(hc[h].wabaIdsFromToken) > 0
        /\ Len(hc[h].businessIds) > 0
        /\ hc[h].wabaId = Null

\* C31: a scope introspection or a discovery method that fails or yields
\* nothing does not end handleCallback: the next applicable method is called,
\* and handleCallback ends for lack of an account only out of Method 3, the
\* last one.
C31_FailureDoesNotAbort ==
    [][\A h \in Calls :
          /\ (hc[h].pc \in {"debug", "method1", "method2"} /\ hc'[h] # hc[h])
             => /\ hc'[h].pc \notin {"done", "idle"}
                /\ hc'[h].wabaId = Null
                   => MethodRank(hc'[h].pc) > MethodRank(hc[h].pc)
          /\ (hc[h].pc # "done" /\ hc'[h].pc = "done" /\ hc'[h].noWaba)
             => hc[h].pc = "method3"]_vars
\* the probe of the identifier of the token scopes gave nothing and the
\* listing of the parent business, called after it, resolved W2
C31_Witness ==
    \E h \in Calls :
        /\ hc[h].pc = "phones"
        /\ Len(hc[h].wabaIdsFromToken) > 0
        /\ hc[h].wabaIdsFromToken[1] # "W2"
        /\ hc[h].wabaId = "W2"

\* C32: the long-lived exchange never ends handleCallback: when it fails or
\* answers without a token, handleCallback goes on to the scope
\* introspection with the short-lived token and no expiry, and the Account
\* it then writes holds that token, encrypted, with a null expiry.
C32_EscalationIsOptional ==
    [][\A h \in Calls :
          /\ (hc[h].pc = "longLived" /\ hc'[h] # hc[h])
             => /\ hc'[h].pc = "debug"
                /\ hc'[h].accessToken # "long"
                   => /\ hc'[h].accessToken = hc[h].accessToken
                      /\ hc'[h].accessToken = "short"
                      /\ hc'[h].tokenExpiresAt = Null
          /\ (/\ hc[h].pc = "upsertWrite"
              /\ hc'[h].pc = "shopName"
              /\ hc[h].accessToken = "short")
             => \A a \in FindAccount(wabaAccounts', hc[h].wabaId) :
                   /\ a.encryptedToken = Encrypt("short")
                   /\ a.tokenExpiresAt = Null]_vars
\* handleCallback has ended in success and the Account it resolved holds the
\* short-lived token without an expiry
C32_Witness ==
    \E h \in Calls :
        /\ hc[h].pc = "done"
        /\ hc[h].result = "success"
        /\ \E a \in FindAccount(wabaAccounts, hc[h].wabaId) :
              /\ a.encryptedToken = Encrypt("short")
              /\ a.tokenExpiresAt = Null

\* the Account of provider identifier w gets its subscription-verified flag
VerifiedNow(w) ==
    /\ \E a \in FindAccount(wabaAccounts', w) : a.webhookVerified
    /\ \A a \in FindAccount(wabaAccounts, w) : ~a.webhookVerified
\* the subscribed_apps call of a registration of w has succeeded
Subscribed(w) == \E r \in regs : r.wabaId = w /\ r.pc = "update"
\* C33: the subscription-verified flag of an Account becomes true only in
\* the step that ends a registration of that Account whose subscribed_apps
\* call has succeeded, and once such a call has succeeded the Account, if it
\* still exists, eventually has the flag set.
C33_VerifiedOnlyAfterSuccess ==
    /\ [][\A w \in {"W1", "W2"} :
            VerifiedNow(w) => /\ Subscribed(w)
                              /\ \E r \in regs \ regs' : r.wabaId = w /\ r.pc = "update"]_vars
    /\ \A w \in {"W1", "W2"} :
          Subscribed(w) ~> (\A a \in FindAccount(wabaAccounts, w) : a.webhookVerified)
\* the Account of W2, connected without the flag, has it set and no
\* registration is pending
C33_Witness ==
    /\ regs = {}
    /\ \E a \in FindAccount(wabaAccounts, "W2") : a.webhookVerified

\* C34: the code of a negotiation that returned the success result is in the
\* used set in every later state.
C34_SucceededStaysUsed == succeeded \subseteq usedCodes

\* h returns the needs-further-signup result
ReturnsNeedsSignup(h) ==
    /\ hc[h].pc # "done"
    /\ hc'[h].pc = "done"
    /\ hc'[h].result = "needsEmbeddedSignup"
\* C35: when handleCallback returns the needs-further-signup result, which
\* it does out of the last discovery method, the step leaves the Accounts
\* and the used set as they are and the code is in the used set; no step of
\* the invocation before it writes an Account.
C35_NeedsSignupKeepsCode ==
    [][\A h \in Calls :
          /\ ReturnsNeedsSignup(h)
             => /\ hc[h].pc = "method3"
                /\ wabaAccounts' = wabaAccounts
                /\ usedCodes' = usedCodes
                /\ hc'[h].code \in usedCodes'
          /\ (/\ hc[h].pc \in {"idle", "findShop", "exchange", "longLived", "debug",
                                "method1", "method2", "method3"}
              /\ hc'[h] # hc[h])
             => wabaAccounts' = wabaAccounts]_vars

\* C36: an invocation whose state carries no shop identifier ends with an
\* error at once, one whose state names no existing shop ends with an error
\* when the shop lookup returns; neither has issued a provider call, and the
\* used set, the codes the provider has exchanged and the Accounts are as
\* they were.
C36_RejectsBadState ==
    [][\A h \in Calls :
          /\ (hc[h].pc = "idle" /\ hc'[h] # hc[h] /\ ShopIdOf(hc'[h].state) = Null)
             => /\ hc'[h].pc = "done"
                /\ hc'[h].error = "MissingShop"
          /\ (hc[h].pc = "findShop" /\ hc'[h] # hc[h] /\ hc[h].shopId \notin Shops)
             => /\ hc'[h].pc = "done"
                /\ hc'[h].error = "InvalidShop"
          /\ (/\ hc[h].pc # "done"
              /\ hc'[h].pc = "done"
              /\ hc'[h].error \in {"MissingShop", "InvalidShop"})
             => /\ ~hc'[h].issued
                /\ usedCodes' = usedCodes
                /\ redeemed' = redeemed
                /\ wabaAccounts' = wabaAccounts
                /\ regs' = regs]_vars
C36_ValidatesStateFirst ==
    /\ [](\A h \in Calls : (hc[h].issued \/ hc[h].pc \in {"exchange"} \cup AfterExchangePcs)
                               => ShopIdOf(hc[h].state) \in Shops)
    /\ C36_RejectsBadState
\* an invocation whose state names the missing shop s9 has ended with the
\* invalid-shop error, with a code that a finished negotiation left in the
\* used set
C36_Witness ==
    \E h \in Calls :
        /\ hc[h].pc = "done"
        /\ hc[h].state = <<"s9", "new">>
        /\ hc[h].error = "InvalidShop"
        /\ ~hc[h].issued
        /\ usedCodes # {}

\* row b is row a but for the phone identity and the display number
OnlyPhoneChanged(a, b) ==
    b = [a EXCEPT !.phoneId = b.phoneId, !.displayNumber = b.displayNumber]
\* row b is row a but for the credential and its expiry
OnlyCredentialChanged(a, b) ==
    b = [a EXCEPT !.encryptedToken = b.encryptedToken, !.tokenExpiresAt = b.tokenExpiresAt]
\* C37: a step of syncPhoneNumbersForAccount changes at most the phone
\* identity and the display number of its Account, a step of
\* refreshTokenForAccount at most the credential and the expiry of its
\* Account; neither adds, removes or changes another Account, and the step
\* in which either operation fails changes no Account.
C37_MaintenanceFrame ==
    [][\A m \in MaintCalls :
          (mt[m].op \in {"sync", "refresh"} /\ mt'[m] # mt[m])
          => /\ Cardinality(wabaAccounts') = Cardinality(wabaAccounts)
             /\ \A a \in wabaAccounts :
                   \E b \in wabaAccounts' :
                      /\ b.id = a.id
                      /\ a.id # mt[m].accountId => b = a
                      /\ mt[m].op = "sync" => OnlyPhoneChanged(a, b)
                      /\ mt[m].op = "refresh" => OnlyCredentialChanged(a, b)
             /\ mt'[m].result = "error" => wabaAccounts' = wabaAccounts]_vars
\* a sync that found no phone number has replaced the phone identity of
\* Account 1 by the placeholder, and a refresh has replaced its credential
C37_Witness ==
    /\ \E m \in MaintCalls :
          /\ mt[m].pc = "done"
          /\ mt[m].op \in {"sync", "refresh"}
          /\ mt[m].result = "success"
          /\ mt[m].accountId = 1
    /\ \E a \in FindAccountById(wabaAccounts, 1) :
          /\ a.phoneId = PendingPhoneId(a.wabaId)
          /\ a.encryptedToken = Encrypt("fresh")
          /\ a.shopId = "s1"
          /\ a.webhookVerified

\* C38: the step that applies a status event sets the status of the
\* Messages of the job's Account that carry the identifier of the event,
\* and changes nothing else: no other Message, no other field of a Message,
\* no Conversation, Template or Account.
C38_StatusEventFrame ==
    [][\A w \in Workers :
          (wk[w].pc = "ums" /\ wk'[w] # wk[w] /\ faults' = faults)
          => /\ conversations' = conversations
             /\ templates' = templates
             /\ wabaAccounts' = wabaAccounts
             /\ DOMAIN messages' = DOMAIN messages
             /\ \A k \in DOMAIN messages :
                   IF /\ messages[k].wabaAccountId = wk[w].acct
                      /\ messages[k].messageId = CurOp(w).arg.id
                   THEN messages'[k] = [messages[k] EXCEPT !.status = CurOp(w).arg.status]
                   ELSE messages'[k] = messages[k]]_vars
\* the status event `sent` for m1 of Account W2 has been applied while the
\* only Message m1 belongs to Account W1: it still has its initial status
C38_Witness ==
    \E w \in Workers :
        /\ wk[w].pc = "mark"
        /\ CurJob(w).wabaId = "W2"
        /\ CurJob(w).payload = "StSent"
        /\ \E k \in DOMAIN messages :
              /\ messages[k].messageId = "m1"
              /\ messages[k].wabaAccountId = 1
              /\ messages[k].status = "delivered"

C40_NoRollback ==
    /\ [](\A w \in Workers :
            (wk[w].pc = "catch" /\ CurJob(w).payload = "Partial" /\ wk[w].err = "TypeError")
            => /\ \E k \in 1..Len(messages) :
                     messages[k].messageId = "m2" /\ messages[k].wabaAccountId = 1
               /\ \E c \in 1..Len(conversations) :
                     conversations[c].contactNumber = "c1" /\ conversations[c].wabaAccountId = 1)
    /\ [][\A w \in Workers :
            Catches(w)
            => /\ conversations' = conversations
               /\ messages' = messages
               /\ templates' = templates
               /\ wk[w].err # Null
               /\ webhookEvents'[CurJob(w).eventId] = [processed |-> TRUE, error |-> wk[w].err]]_vars
\* the first job applied the message of its first change, raised on its
\* second change, and is back in the queue: the Message and the Conversation
\* are there and the event is processed with the error
C40_Witness ==
    /\ jobs[1].st = "waiting"
    /\ jobs[1].payload = "Partial"
    /\ jobs[1].attemptsMade = 1
    /\ webhookEvents[1] = [processed |-> TRUE, error |-> "TypeError"]
    /\ Len(conversations) = 1
    /\ Len(messages) = 1
    /\ messages[1].messageId = "m2"

====
